---------------------------- MODULE Spec2Model ----------------------------
(***************************************************************************)
(* A model of the VME bus driver (vme.cpp): the bus controller             *)
(* vme_device, the slot vme_slot_device and the card interface             *)
(* device_vme_card_interface; of the APF cartridge slot                    *)
(* (bus/apf/slot.cpp): apf_cart_slot_device and device_apf_cart_interface; *)
(* and of the devices of the drivers that use such buses: the Easi-Speech  *)
(* cartridge, the APEXC cylinder image, the MTX and CBM image loaders, the *)
(* X68000 SASI controller and the Power-JC mailbox and ROM port.           *)
(*                                                                         *)
(* One specification is given per device.  Spec drives the bus controller  *)
(* over every bus configuration (own space or delegated to a host CPU of   *)
(* any width, or to a missing CPU).  SpecSlots drives the slots and cards  *)
(* over every slot configuration, together with the bus operations.        *)
(* SpecApf drives the APF cartridge slot: start, image loads, the          *)
(* default-card query and the bus accesses; SpecRaw does so with raw image *)
(* files only.  SpecEarly drives the VME and APF slots and the VME cards   *)
(* with no schedule, so that a slot is also accessed before it has been    *)
(* resolved.  SpecEasi, SpecCyl, SpecLoaders, SpecSasi, SpecMailbox and    *)
(* SpecDspRom drive the other devices; SpecSasiLive is SpecSasi with a     *)
(* host that keeps making the data-port access the phase asks for.         *)
(***************************************************************************)
EXTENDS Integers, Sequences, FiniteSets, TLC

(***************************************************************************)
(* Bounds of the model.                                                    *)
(***************************************************************************)
\* Number of VME slots on the backplane.
NSlots == 2

(***************************************************************************)
(* Program constants.                                                      *)
(***************************************************************************)
\* Data width of the bus's own space configuration m_a32_config.
A32DataWidth == 32

A16_SC == "A16_SC"
A24_SC == "A24_SC"
A32_SC == "A32_SC"

\* The address modifiers a caller can pass: the three single-cycle ones the
\* driver handles and two of the remaining vme_amod_t values.
vme_amod_t ==
    {A16_SC, A24_SC, A32_SC, "AMOD_EXTENDED_NON_PRIV_BLK", "AMOD_SHORT_SUPERVIS_ACCESS"}

\* The five handler signatures install_device is overloaded on.
read8     == "read8_delegate"
read8sm   == "read8sm_delegate"
read8smo  == "read8smo_delegate"
read16    == "read16_delegate"
read32    == "read32_delegate"
Delegates == {read8, read8sm, read8smo, read16, read32}

\* The address spaces a handler can land in: the bus's own program space and
\* the host CPU's program space.
OwnSpace == "own"
CpuSpace == "cpu"
Spaces   == {OwnSpace, CpuSpace}
\* A pointer value that designates no address space (null or wild).
BadPtr   == "invalid"

\* Calls made to install_device: [start, end] and the 32-bit enable mask.
\* A uint32_t is held as its two 16-bit halves: value = hi * 65536 + lo.
U32(hi, lo) == [hi |-> hi, lo |-> lo]
Requests ==
    { [start |-> 0,        end |-> 65535,    mask |-> U32(4660, 22136)],    \* 0x0000-0xffff,     0x12345678
      [start |-> 16711680, end |-> 16711935, mask |-> U32(65280, 65280)] }  \* 0xff0000-0xff00ff, 0xff00ff00
Ranges == { <<r.start, r.end>> : r \in Requests }

\* Host CPU configurations: no CPU with the configured tag, or a CPU whose
\* program space has one of these data widths.
NoCpu      == 0
CpuWidths  == {8, 16, 24, 32}
\* Values an unset m_prgwidth can hold.
UnsetWidths == {0, 16}

NoHandler == [delegate |-> "none", mask |-> U32(0, 0)]

NoRead  == -1
Offsets == {0, 65535}

Slots == 1 .. NSlots
\* Card k sits in slot k; card 0 is a card device that sits in no VME slot.
Cards == 0 .. NSlots
SlotOptions == {"none", "vmecard", "other"}

(***************************************************************************)
(* APF cartridge slot: program constants and the inputs of the model.      *)
(***************************************************************************)
\* The cartridge variants; slot_list pairs each with its slot option name.
APF_STD      == 0
APF_BASIC    == 1
APF_SPACEDST == 2
slot_list == << [pcb_id |-> APF_STD,      slot_option |-> "std"],
               [pcb_id |-> APF_BASIC,    slot_option |-> "basic"],
               [pcb_id |-> APF_SPACEDST, slot_option |-> "spacedst"] >>

nullptr == 0
NoByte  == -1

\* A file length is a 64-bit number hi * 2^32 + lo.
FileLength(hi, lo) == [hi |-> hi, lo |-> lo]
\* Its conversion to uint32_t.
LengthAsUint32(len) == len.lo

\* get_feature("slot") of a software entry without that feature, and
\* get_software_region("ram") of one without that region.
NoFeature == "<null>"
NoRegion  == -1

\* Image files: lengths 0x1800, 0x2000, 0x2001, 0x3800, 0x3801 and 2^32 + 0x1800.
\* Byte o of an image is (seed + o) % 256.
RawImage(hi, lo, seed) ==
    [softlist |-> FALSE, length |-> FileLength(hi, lo), seed |-> seed,
     slot |-> NoFeature, ram |-> NoRegion]
RawImages ==
    { RawImage(0, 6144, 1), RawImage(0, 8192, 2), RawImage(0, 8193, 3),
      RawImage(0, 14336, 4), RawImage(0, 14337, 5), RawImage(1, 6144, 6) }
\* Software-list entries: a "rom" region of 0x1000 or 0x3801 bytes, an optional
\* "slot" feature and an optional "ram" region of 0x800 bytes.
SoftImages ==
    { [softlist |-> TRUE, length |-> FileLength(0, r.len), seed |-> r.seed,
       slot |-> f, ram |-> m] :
        r \in { [len |-> 4096, seed |-> 7], [len |-> 14337, seed |-> 8] },
        f \in { NoFeature, "std", "basic", "spacedst", "bogus" },
        m \in { NoRegion, 2048 } }
Images == RawImages \cup SoftImages
ImageByte(img, o) == (img.seed + o) % 256

\* The offsets at which the model keeps the bytes of the ROM region and of the
\* RAM, and the offsets and data of the bus accesses.
RomOffsets == {0, 1023, 6143, 8192, 14335}
RamOffsets == {0, 1023}
ApfOffsets == RomOffsets \cup {16383}
ApfData    == {90}
\* The hook of get_default_card_software: an image file of some length, or no
\* file and the software list's choice of option (if it makes one).
Hooks ==
    { [has_file |-> TRUE, length |-> i.length, softslot |-> NoFeature] : i \in RawImages }
    \cup { [has_file |-> FALSE, length |-> FileLength(0, 0), softslot |-> f] :
              f \in {NoFeature, "basic"} }

VARIABLES
    m_allocspaces,  \* vme_device::m_allocspaces
    m_prgspace,     \* vme_device::m_prgspace: OwnSpace, CpuSpace or BadPtr
    m_prgwidth,     \* vme_device::m_prgwidth
    busState,       \* "constructed" | "started"
    cpu,            \* NoCpu, or the data width of the host CPU's program space
    spaces,         \* spaces[s][range]: the handler installed there, or NoHandler
    halt,           \* "run" | "fatal" (emu_fatalerror thrown) | "segv" (invalid access)
    msg,            \* the fatal error's message, or the faulting function
    m_device_list,  \* vme_device::m_device_list
    slot_card,      \* the device configured into each slot
    m_slot_nbr,     \* vme_slot_device::m_slot_nbr
    card_m_vme,     \* device_vme_card_interface::m_vme
    card_m_slot,    \* device_vme_card_interface::m_slot
    resolved,       \* slots whose device_resolve_objects has run
    post_started,   \* cards whose interface_post_start has run
    read_result,    \* the value the last read8 returned (NoRead: none yet)
    apf_card,       \* the device configured into the APF slot: "none" | "cart"
    m_cart,         \* apf_cart_slot_device::m_cart: "null" | "cart"
    m_type,         \* apf_cart_slot_device::m_type
    m_rom,          \* device_apf_cart_interface::m_rom: nullptr, or the region it points into
    m_rom_size,     \* device_apf_cart_interface::m_rom_size
    rom,            \* the bytes of the ROM region at RomOffsets (NoByte: outside the region)
    m_ram,          \* size of device_apf_cart_interface::m_ram
    ram,            \* the bytes of m_ram at RamOffsets (NoByte: outside the vector)
    regions,        \* number of memory regions allocated so far
    load_result,    \* what the last operation, a call_load, returned ("none" otherwise)
    apf_result,     \* what the last operation, an APF read, returned (NoRead otherwise)
    slot_string,    \* what the last operation, get_default_card_software, returned
    cart_rom_region, \* the Easi-Speech cartridge's 'rom' region: NoRegion, or its size in bytes
    page,           \* what is installed in each page of the Easi-Speech cartridge
    es_error,       \* what initialize_cartridge returned ("none": not called)
    es_message,     \* the message initialize_cartridge left
    ald,            \* the allophone last passed to sp0256 ald_w (NoByte: none)
    speech_result,  \* the value the last speech_r returned (NoRead: none yet)
    cyl_file,       \* the cylinder image file last opened: [readonly, words]
    cyl_open,       \* whether the cylinder image is open (loaded and not yet unloaded)
    m_writable,     \* apexc_cylinder_image_device::m_writable
    maincpu_ram,    \* the words of memshare("maincpu") at CylOffsets
    fwrite_len,     \* bytes the last call_unload passed to fwrite (0: none)
    lsb_first,      \* whether the build defines LSB_FIRST
    driver,         \* the machine a run of the loaders emulates: "mtx" | "cbm"
    mtx_ram_size,   \* m_ram->size() of the MTX
    bank,           \* the MTX memory map: mode, bank entries, ranges left to the nop handler
    program_mem,    \* the byte last written to the MTX program space at MtxAddrs (NoByte: none)
    maincpu_pc,     \* the program counter of the MTX CPU
    extrom,         \* the extension ROM allocated by extrom_load (NoExtrom: none)
    c64_mem,        \* the byte last written to the CBM loader's space at CbmAddrs (NoByte: none)
    img_result,     \* what the last operation, an image load, returned ("none" otherwise)
    max_index,      \* the largest index at which the last load read its buffer (NoRead: none)
    data_length,    \* the length of the buffer the last load indexed (NoRead: none)
    hdc_started,    \* whether x68k_hdc_image_device::device_start has run
    hd_exists,      \* exists(): whether a hard disk image is mounted
    m_phase,        \* x68k_hdc_image_device::m_phase
    m_status_port,  \* m_status_port
    m_status,       \* m_status
    m_command,      \* m_command[0..9]
    m_sense,        \* m_sense[0..3]
    m_command_byte_count,
    m_command_byte_total,
    m_current_command,
    m_transfer_byte_count,
    m_transfer_byte_total,
    m_req_timer,    \* m_req_timer: "off" | "armed"
    hd_pos,         \* the position in the image file
    hd_data,        \* the bytes of the image at HdOffsets
    hdc_result,     \* the value the last operation, an hdc_r, returned (NoRead otherwise)
    m_io_share_ram, \* taitopjc_state::m_io_share_ram at ShareWords
    int6,           \* the I/O CPU's TLCS900_INT6 line
    int1,           \* the I/O CPU's TLCS900_INT1 line
    int2,           \* the I/O CPU's TLCS900_INT2 line
    irq0,           \* the PowerPC's INPUT_LINE_IRQ0
    maincpu_reset,  \* the PowerPC's INPUT_LINE_RESET
    soundcpu_reset, \* the sound CPU's INPUT_LINE_RESET
    m_dsp_ram,      \* m_dsp_ram at DspShareOffsets
    m_dsp_rom_address, \* m_dsp_rom_address, a uint32_t as two 16-bit halves
    pjc_result      \* the lanes the last operation, a read, returned (NoPjcRead otherwise)

busVars  == <<m_allocspaces, m_prgspace, m_prgwidth, busState, cpu, spaces, halt, msg>>
slotVars == <<slot_card, m_slot_nbr, card_m_vme, card_m_slot, resolved, post_started,
              read_result>>
cartVars == <<apf_card, m_cart, m_type, m_rom, m_rom_size, rom, m_ram, ram, regions,
              load_result, apf_result, slot_string>>
easiVars == <<cart_rom_region, page, es_error, es_message, ald, speech_result>>
\* The variables of the devices modelled besides the VME bus and the APF slot.
cylVars  == <<cyl_file, cyl_open, m_writable, maincpu_ram, fwrite_len, lsb_first>>
mtxVars  == <<driver, mtx_ram_size, bank, program_mem, maincpu_pc, extrom, c64_mem, img_result,
              max_index, data_length>>
sasiVars == <<hdc_started, hd_exists, m_phase, m_status_port, m_status, m_command, m_sense,
              m_command_byte_count, m_command_byte_total, m_current_command,
              m_transfer_byte_count, m_transfer_byte_total, m_req_timer, hd_pos, hd_data,
              hdc_result>>
pjcVars  == <<m_io_share_ram, int6, int1, int2, irq0, maincpu_reset, soundcpu_reset,
              m_dsp_ram, m_dsp_rom_address, pjc_result>>
peerVars == <<easiVars, cylVars, mtxVars, sasiVars, pjcVars>>
\* What the operations of one device leave alone: the variables of the others.
busSlotVars == <<m_allocspaces, m_prgspace, m_prgwidth, busState, cpu, spaces,
                 m_device_list, slotVars>>
easiPeers == <<busSlotVars, halt, msg, cartVars, cylVars, mtxVars, sasiVars, pjcVars>>
cylPeers  == <<busSlotVars, halt, msg, cartVars, easiVars, mtxVars, sasiVars, pjcVars>>
mtxOthers == <<busSlotVars, cartVars, easiVars, cylVars, sasiVars, pjcVars>>
mtxPeers  == <<mtxOthers, halt, msg>>
sasiOthers == <<busSlotVars, cartVars, easiVars, cylVars, mtxVars, pjcVars>>
sasiPeers == <<sasiOthers, halt, msg>>
pjcOthers == <<busSlotVars, cartVars, easiVars, cylVars, mtxVars, sasiVars>>
pjcPeers  == <<pjcOthers, halt, msg>>
\* The variables of the VME model other than halt and msg.
vmeVars  == <<m_allocspaces, m_prgspace, m_prgwidth, busState, cpu, spaces,
              m_device_list, slot_card, m_slot_nbr, card_m_vme, card_m_slot,
              resolved, post_started, read_result>>
\* The state of the APF slot and of its cartridge.
cartState == <<apf_card, m_cart, m_type, m_rom, m_rom_size, rom, m_ram, ram, regions>>
vars     == <<m_allocspaces, m_prgspace, m_prgwidth, busState, cpu, spaces, halt, msg,
              m_device_list, slot_card, m_slot_nbr, card_m_vme, card_m_slot,
              resolved, post_started, read_result,
              apf_card, m_cart, m_type, m_rom, m_rom_size, rom, m_ram, ram, regions,
              load_result, apf_result, slot_string,
              cart_rom_region, page, es_error, es_message, ald, speech_result,
              cyl_file, cyl_open, m_writable, maincpu_ram, fwrite_len, lsb_first,
              driver, mtx_ram_size, bank, program_mem, maincpu_pc, extrom, c64_mem,
              img_result, max_index, data_length,
              hdc_started, hd_exists, m_phase, m_status_port, m_status, m_command, m_sense,
              m_command_byte_count, m_command_byte_total, m_current_command,
              m_transfer_byte_count, m_transfer_byte_total, m_req_timer, hd_pos, hd_data,
              hdc_result,
              m_io_share_ram, int6, int1, int2, irq0, maincpu_reset, soundcpu_reset,
              m_dsp_ram, m_dsp_rom_address, pjc_result>>

(***************************************************************************)
(* Integer helpers.                                                        *)
(***************************************************************************)
RECURSIVE BitAnd(_, _)
BitAnd(a, b) ==
    IF a = 0 \/ b = 0 THEN 0
    ELSE (a % 2) * (b % 2) + 2 * BitAnd(a \div 2, b \div 2)

\* a & b on uint32_t values
BitAnd32(a, b) == U32(BitAnd(a.hi, b.hi), BitAnd(a.lo, b.lo))

\* The conversions (uint16_t)x and (uint32_t)x of a uint32_t x
uint16_t(x) == U32(0, x.lo % 65536)
uint32_t(x) == U32(x.hi % 65536, x.lo % 65536)

\* (uint16_t)(mask & 0x0000ffff) and (uint32_t)(mask & 0x00ffffff), tabulated
\* over the masks install_device is called with.
Masks == { r.mask : r \in Requests }
MaskedTo16 == [m \in Masks |-> uint16_t(BitAnd32(m, U32(0, 65535)))]
MaskedTo24 == [m \in Masks |-> uint32_t(BitAnd32(m, U32(255, 65535)))]

(***************************************************************************)
(* Collaborators of the driver.                                            *)
(***************************************************************************)
\* fatalerror(): throws emu_fatalerror; the configuration pass is aborted.
fatalerror(text) ==
    /\ halt' = "fatal"
    /\ msg' = text
    /\ UNCHANGED <<m_allocspaces, m_prgspace, m_prgwidth, busState, cpu, spaces,
                   m_device_list, slotVars, cartVars, peerVars>>

\* An access through a pointer that designates no object.
segfault(where) ==
    /\ halt' = "segv"
    /\ msg' = where
    /\ UNCHANGED <<m_allocspaces, m_prgspace, m_prgwidth, busState, cpu, spaces,
                   m_device_list, slotVars, cartVars, peerVars>>

\* Whether m_prgspace points at a live address space.
ValidSpace(p) == p = OwnSpace \/ (p = CpuSpace /\ cpu # NoCpu)

\* space->install_readwrite_handler(start, end, rhandler, whandler, unitmask)
install_readwrite_handler(space, start, end, delegate, unitmask) ==
    IF ValidSpace(space)
    THEN /\ spaces' = [spaces EXCEPT ![space][<<start, end>>] =
                           [delegate |-> delegate, mask |-> unitmask]]
         /\ UNCHANGED <<m_allocspaces, m_prgspace, m_prgwidth, busState, cpu, halt, msg,
                        m_device_list, slotVars, cartVars, peerVars>>
    ELSE segfault("install_device")

(***************************************************************************)
(* vme_device                                                              *)
(***************************************************************************)
\* use_owner_spaces as it would be if it also switched a started bus over to the
\* host CPU's space.
use_owner_spaces_rewire ==
    /\ halt = "run"
    /\ m_allocspaces' = FALSE
    /\ IF busState = "started" /\ cpu # NoCpu
       THEN m_prgspace' = CpuSpace /\ m_prgwidth' = cpu
       ELSE UNCHANGED <<m_prgspace, m_prgwidth>>
    /\ UNCHANGED <<busState, cpu, spaces, halt, msg, m_device_list, slotVars, cartVars, peerVars>>

use_owner_spaces ==
    /\ halt = "run"
    /\ m_allocspaces' = FALSE
    /\ UNCHANGED <<m_prgspace, m_prgwidth, busState, cpu, spaces, halt, msg,
                   m_device_list, slotVars, cartVars, peerVars>>

\* device_start as it would be if it ignored m_allocspaces.
device_start_alwaysown ==
    /\ halt = "run"
    /\ busState = "constructed"
    /\ m_prgspace' = OwnSpace
    /\ m_prgwidth' = A32DataWidth
    /\ busState' = "started"
    /\ UNCHANGED <<m_allocspaces, cpu, spaces, halt, msg, m_device_list, slotVars, cartVars, peerVars>>

device_start ==
    /\ halt = "run"
    /\ busState = "constructed"
    /\ IF m_allocspaces
       THEN /\ m_prgspace' = OwnSpace
            /\ m_prgwidth' = A32DataWidth
            /\ busState' = "started"
            /\ UNCHANGED <<m_allocspaces, cpu, spaces, halt, msg, m_device_list, slotVars, cartVars, peerVars>>
       ELSE IF cpu # NoCpu
            THEN /\ m_prgspace' = CpuSpace
                 /\ m_prgwidth' = cpu
                 /\ busState' = "started"
                 /\ UNCHANGED <<m_allocspaces, cpu, spaces, halt, msg, m_device_list,
                                slotVars, cartVars, peerVars>>
            ELSE \* m_maincpu is nullptr and is dereferenced
                 \/ segfault("device_start")
                 \/ \E w \in UnsetWidths :
                        /\ m_prgspace' = BadPtr
                        /\ m_prgwidth' = w
                        /\ busState' = "started"
                        /\ UNCHANGED <<m_allocspaces, cpu, spaces, halt, msg,
                                       m_device_list, slotVars, cartVars, peerVars>>

\* device_reset as it would be if it removed the installed handlers.
device_reset_uninstalls ==
    /\ halt = "run"
    /\ busState = "started"
    /\ spaces' = [s \in Spaces |-> [r \in Ranges |-> NoHandler]]
    /\ UNCHANGED <<m_allocspaces, m_prgspace, m_prgwidth, busState, cpu, halt, msg,
                   m_device_list, slotVars, cartVars, peerVars>>

device_reset ==
    /\ halt = "run"
    /\ busState = "started"
    /\ UNCHANGED vars

\* add_vme_card as it would be if it inserted at the front of the list.
add_vme_card_front(card) ==
    m_device_list' = <<card>> \o m_device_list

add_vme_card(card) ==
    m_device_list' = Append(m_device_list, card)

\* The D8 overload as it would be without the default: case of the width switch.
install_device_read8_nodefault(amod, start, end, mask) ==
    /\ halt = "run"
    /\ IF amod \notin {A16_SC, A24_SC, A32_SC}
       THEN fatalerror("VME D8: Non supported Address modifier")
       ELSE CASE m_prgwidth = 16 ->
                     install_readwrite_handler(m_prgspace, start, end, read8,
                              MaskedTo16[mask])
              [] m_prgwidth = 24 ->
                     install_readwrite_handler(m_prgspace, start, end, read8,
                              MaskedTo24[mask])
              [] OTHER ->
                     install_readwrite_handler(m_prgspace, start, end, read8, mask)

install_device_read8(amod, start, end, mask) ==
    /\ halt = "run"
    /\ IF amod \notin {A16_SC, A24_SC, A32_SC}
       THEN fatalerror("VME D8: Non supported Address modifier")
       ELSE CASE m_prgwidth = 16 ->
                     install_readwrite_handler(m_prgspace, start, end, read8,
                              MaskedTo16[mask])
              [] m_prgwidth = 24 ->
                     install_readwrite_handler(m_prgspace, start, end, read8,
                              MaskedTo24[mask])
              [] m_prgwidth = 32 ->
                     install_readwrite_handler(m_prgspace, start, end, read8, mask)
              [] OTHER -> fatalerror("VME D8: Bus width not supported")

install_device_read8sm(amod, start, end, mask) ==
    /\ halt = "run"
    /\ IF amod \notin {A16_SC, A24_SC, A32_SC}
       THEN fatalerror("VME D8: Non supported Address modifier")
       ELSE CASE m_prgwidth = 16 ->
                     install_readwrite_handler(m_prgspace, start, end, read8sm,
                              MaskedTo16[mask])
              [] m_prgwidth = 24 ->
                     install_readwrite_handler(m_prgspace, start, end, read8sm,
                              MaskedTo24[mask])
              [] m_prgwidth = 32 ->
                     install_readwrite_handler(m_prgspace, start, end, read8sm, mask)
              [] OTHER -> fatalerror("VME D8: Bus width not supported")

\* The D8 smo overload as it would be if the 16-bit case passed the mask on whole.
install_device_read8smo_nomask(amod, start, end, mask) ==
    /\ halt = "run"
    /\ IF amod \notin {A16_SC, A24_SC, A32_SC}
       THEN fatalerror("VME D8: Non supported Address modifier")
       ELSE CASE m_prgwidth = 16 ->
                     install_readwrite_handler(m_prgspace, start, end, read8smo, mask)
              [] m_prgwidth = 24 ->
                     install_readwrite_handler(m_prgspace, start, end, read8smo,
                              MaskedTo24[mask])
              [] m_prgwidth = 32 ->
                     install_readwrite_handler(m_prgspace, start, end, read8smo, mask)
              [] OTHER -> fatalerror("VME D8: Bus width not supported")

install_device_read8smo(amod, start, end, mask) ==
    /\ halt = "run"
    /\ IF amod \notin {A16_SC, A24_SC, A32_SC}
       THEN fatalerror("VME D8: Non supported Address modifier")
       ELSE CASE m_prgwidth = 16 ->
                     install_readwrite_handler(m_prgspace, start, end, read8smo,
                              MaskedTo16[mask])
              [] m_prgwidth = 24 ->
                     install_readwrite_handler(m_prgspace, start, end, read8smo,
                              MaskedTo24[mask])
              [] m_prgwidth = 32 ->
                     install_readwrite_handler(m_prgspace, start, end, read8smo, mask)
              [] OTHER -> fatalerror("VME D8: Bus width not supported")

\* The D16 overload as it would be without the default: case of the modifier switch.
install_device_read16_anyamod(amod, start, end, mask) ==
    /\ halt = "run"
    /\ CASE m_prgwidth = 16 ->
                install_readwrite_handler(m_prgspace, start, end, read16,
                         MaskedTo16[mask])
         [] m_prgwidth = 24 ->
                install_readwrite_handler(m_prgspace, start, end, read16,
                         MaskedTo24[mask])
         [] m_prgwidth = 32 ->
                install_readwrite_handler(m_prgspace, start, end, read16, mask)
         [] OTHER -> fatalerror("VME D16: Bus width not supported")

install_device_read16(amod, start, end, mask) ==
    /\ halt = "run"
    /\ IF amod \notin {A16_SC, A24_SC, A32_SC}
       THEN fatalerror("VME D16: Non supported Address modifier")
       ELSE CASE m_prgwidth = 16 ->
                     install_readwrite_handler(m_prgspace, start, end, read16,
                              MaskedTo16[mask])
              [] m_prgwidth = 24 ->
                     install_readwrite_handler(m_prgspace, start, end, read16,
                              MaskedTo24[mask])
              [] m_prgwidth = 32 ->
                     install_readwrite_handler(m_prgspace, start, end, read16, mask)
              [] OTHER -> fatalerror("VME D16: Bus width not supported")

\* The D32 overload as it would be if it installed into the bus's own space
\* whatever m_prgspace is.
install_device_read32_ownspace(amod, start, end, mask) ==
    /\ halt = "run"
    /\ IF amod \notin {A16_SC, A24_SC, A32_SC}
       THEN fatalerror("VME D32: Non supported Address modifier")
       ELSE CASE m_prgwidth = 16 ->
                     install_readwrite_handler(OwnSpace, start, end, read32,
                              MaskedTo16[mask])
              [] m_prgwidth = 24 ->
                     install_readwrite_handler(OwnSpace, start, end, read32,
                              MaskedTo24[mask])
              [] m_prgwidth = 32 ->
                     install_readwrite_handler(OwnSpace, start, end, read32, mask)
              [] OTHER -> fatalerror("VME D32: Bus width not supported")

install_device_read32(amod, start, end, mask) ==
    /\ halt = "run"
    /\ IF amod \notin {A16_SC, A24_SC, A32_SC}
       THEN fatalerror("VME D32: Non supported Address modifier")
       ELSE CASE m_prgwidth = 16 ->
                     install_readwrite_handler(m_prgspace, start, end, read32,
                              MaskedTo16[mask])
              [] m_prgwidth = 24 ->
                     install_readwrite_handler(m_prgspace, start, end, read32,
                              MaskedTo24[mask])
              [] m_prgwidth = 32 ->
                     install_readwrite_handler(m_prgspace, start, end, read32, mask)
              [] OTHER -> fatalerror("VME D32: Bus width not supported")

\* install_device, selected by the handler signature of its arguments.
install_device(delegate, amod, start, end, mask) ==
    CASE delegate = read8    -> install_device_read8(amod, start, end, mask)
      [] delegate = read8sm  -> install_device_read8sm(amod, start, end, mask)
      [] delegate = read8smo -> install_device_read8smo(amod, start, end, mask)
      [] delegate = read16   -> install_device_read16(amod, start, end, mask)
      [] delegate = read32   -> install_device_read32(amod, start, end, mask)

InstallD8 ==
    \E amod \in vme_amod_t, r \in Requests :
        install_device_read8(amod, r.start, r.end, r.mask)
InstallD8sm ==
    \E amod \in vme_amod_t, r \in Requests :
        install_device_read8sm(amod, r.start, r.end, r.mask)
InstallD8smo ==
    \E amod \in vme_amod_t, r \in Requests :
        install_device_read8smo(amod, r.start, r.end, r.mask)
InstallD16 ==
    \E amod \in vme_amod_t, r \in Requests :
        install_device_read16(amod, r.start, r.end, r.mask)
InstallD32 ==
    \E amod \in vme_amod_t, r \in Requests :
        install_device_read32(amod, r.start, r.end, r.mask)

(***************************************************************************)
(* device_vme_card_interface                                               *)
(***************************************************************************)
\* Whether card c exists: card 0 always, card k when slot k holds a VME card.
CardExists(c) == IF c = 0 THEN TRUE ELSE slot_card[c] = "vmecard"

\* set_vme_bus(vme, slot): m_vme = &vme; m_slot = slot
set_vme_bus(c, vme, slot) ==
    /\ card_m_vme' = [card_m_vme EXCEPT ![c] = vme]
    /\ card_m_slot' = [card_m_slot EXCEPT ![c] = slot]

\* interface_post_start as it would be without the test of m_vme.
interface_post_start_unchecked(c) ==
    /\ halt = "run"
    /\ CardExists(c)
    /\ post_started' = post_started \cup {c}
    /\ add_vme_card(c)
    /\ UNCHANGED <<busVars, cartVars, peerVars, slot_card, m_slot_nbr, card_m_vme, card_m_slot, resolved,
                   read_result>>

interface_post_start(c) ==
    /\ halt = "run"
    /\ CardExists(c)
    /\ post_started' = post_started \cup {c}
    /\ IF card_m_vme[c] # "null"
       THEN add_vme_card(c)
       ELSE UNCHANGED m_device_list
    /\ UNCHANGED <<busVars, cartVars, peerVars, slot_card, m_slot_nbr, card_m_vme, card_m_slot, resolved,
                   read_result>>

\* device_vme_card_interface::read8, the implementation a card inherits when
\* it does not override it: uint8_t result = 0x00; LOG; return result
card_read8(c, offset) ==
    /\ halt = "run"
    /\ CardExists(c)
    /\ read_result' = 0
    /\ UNCHANGED <<busVars, cartVars, peerVars, m_device_list, slot_card, m_slot_nbr, card_m_vme,
                   card_m_slot, resolved, post_started>>

\* device_vme_card_interface::write8: LOG only
card_write8(c, offset, data) ==
    /\ halt = "run"
    /\ CardExists(c)
    /\ UNCHANGED vars

(***************************************************************************)
(* vme_slot_device                                                         *)
(***************************************************************************)
\* dynamic_cast<device_vme_card_interface *>(get_card_device()) is non-null
ImplementsCardInterface(k) == slot_card[k] = "vmecard"

\* device_resolve_objects as it would be without the test of dev.
device_resolve_objects_nocheck(k) ==
    /\ halt = "run"
    /\ resolved' = resolved \cup {k}
    /\ set_vme_bus(k, "vme", m_slot_nbr[k])
    /\ UNCHANGED <<busVars, cartVars, peerVars, m_device_list, slot_card, m_slot_nbr, post_started,
                   read_result>>

device_resolve_objects(k) ==
    /\ halt = "run"
    /\ resolved' = resolved \cup {k}
    /\ IF ImplementsCardInterface(k)
       THEN set_vme_bus(k, "vme", m_slot_nbr[k])
       ELSE UNCHANGED <<card_m_vme, card_m_slot>>
    /\ UNCHANGED <<busVars, cartVars, peerVars, m_device_list, slot_card, m_slot_nbr, post_started,
                   read_result>>

vme_slot_read8(k, offset) ==
    /\ halt = "run"
    /\ read_result' = 0
    /\ UNCHANGED <<busVars, cartVars, peerVars, m_device_list, slot_card, m_slot_nbr, card_m_vme,
                   card_m_slot, resolved, post_started>>

vme_slot_write8(k, offset, data) ==
    /\ halt = "run"
    /\ UNCHANGED vars

(***************************************************************************)
(* The device framework's schedule: every device's device_resolve_objects  *)
(* runs once, then the devices are started (each interface_post_start runs *)
(* once), and only then is the bus accessed.                               *)
(***************************************************************************)
ResolveDone == resolved = Slots
StartDone   == post_started = {c \in Cards : CardExists(c)}

ResolveSlot ==
    \E k \in Slots \ resolved :
        /\ post_started = {}
        /\ device_resolve_objects(k)

PostStartCard ==
    \E c \in Cards \ post_started :
        /\ ResolveDone
        /\ interface_post_start(c)

SlotRead ==
    \E k \in Slots, offset \in Offsets :
        /\ ResolveDone /\ StartDone
        /\ vme_slot_read8(k, offset)

SlotWrite ==
    \E k \in Slots, offset \in Offsets, data \in {0, 255} :
        /\ ResolveDone /\ StartDone
        /\ vme_slot_write8(k, offset, data)

(***************************************************************************)
(* device_apf_cart_interface                                               *)
(***************************************************************************)
\* memory().region_alloc(tag, size, 1, ENDIANNESS_LITTLE): the bytes of a new
\* region of size bytes.
region_alloc(size) == [o \in RomOffsets |-> IF o < size THEN 0 ELSE NoByte]

\* rom_alloc as it would be without the test of m_rom.
rom_alloc_always(size) ==
    [m_rom |-> regions + 1, m_rom_size |-> size, rom |-> region_alloc(size),
     regions |-> regions + 1]

\* rom_alloc(size): the card's m_rom and m_rom_size, the bytes of the region
\* m_rom points into and the number of regions, as the call leaves them.
rom_alloc(size) ==
    IF m_rom = nullptr
    THEN [m_rom |-> regions + 1, m_rom_size |-> size, rom |-> region_alloc(size),
          regions |-> regions + 1]
    ELSE [m_rom |-> m_rom, m_rom_size |-> m_rom_size, rom |-> rom, regions |-> regions]

\* ram_alloc as it would be if it always made the RAM 0x400 bytes long.
ram_alloc_fixed(size) ==
    [m_ram |-> 1024,
     ram |-> [o \in RamOffsets |->
                 IF o >= 1024 THEN NoByte ELSE IF o < m_ram THEN ram[o] ELSE 0]]

\* ram_alloc(size): m_ram.resize(size); the size and bytes of m_ram afterwards.
ram_alloc(size) ==
    [m_ram |-> size,
     ram |-> [o \in RamOffsets |->
                 IF o >= size THEN NoByte ELSE IF o < m_ram THEN ram[o] ELSE 0]]

\* The cartridge's own read_rom, extra_rom, read_ram and write_ram: a byte of
\* the backing store, 0xFF where there is none.
cart_read_rom(offset) ==
    IF m_rom # nullptr /\ offset < m_rom_size THEN rom[offset] ELSE 255
cart_extra_rom(offset) ==
    IF m_rom # nullptr /\ offset < m_rom_size THEN rom[offset] ELSE 255
cart_read_ram(offset) ==
    IF offset < m_ram THEN ram[offset] ELSE 255
cart_write_ram(offset, data) ==
    IF offset < m_ram THEN [ram EXCEPT ![offset] = data] ELSE ram

(***************************************************************************)
(* apf_cart_slot_device                                                    *)
(***************************************************************************)
\* get_card_device(): the configured cartridge, or nullptr.
get_card_device == IF apf_card = "cart" THEN "cart" ELSE "null"

\* device_start: m_cart = get_card_device()
apf_device_start ==
    /\ halt = "run"
    /\ m_cart' = get_card_device
    /\ load_result' = "none" /\ apf_result' = NoRead /\ slot_string' = "none"
    /\ UNCHANGED <<vmeVars, peerVars, halt, msg, apf_card, m_type, m_rom, m_rom_size, rom,
                   m_ram, ram, regions>>

SlotIndexes == 1 .. Len(slot_list)
\* The first of a set of indexes into slot_list: where the loop returns.
FirstIndex(hits) == CHOOSE i \in hits : \A j \in hits : i <= j

\* apf_get_pcb_id as it would be if a name outside slot_list gave the id of the
\* last entry.
apf_get_pcb_id_last(slot) ==
    LET hits == {i \in SlotIndexes : slot_list[i].slot_option = slot}
    IN  IF hits # {} THEN slot_list[FirstIndex(hits)].pcb_id
        ELSE slot_list[Len(slot_list)].pcb_id

apf_get_pcb_id(slot) ==
    LET hits == {i \in SlotIndexes : slot_list[i].slot_option = slot}
    IN  IF hits # {} THEN slot_list[FirstIndex(hits)].pcb_id ELSE 0

apf_get_slot(type) ==
    LET hits == {i \in SlotIndexes : slot_list[i].pcb_id = type}
    IN  IF hits # {} THEN slot_list[FirstIndex(hits)].slot_option ELSE "std"

\* The region m_rom points into after size bytes of img were copied to its
\* start; a copy longer than the region stops being tracked at the region's end.
CopyImage(bytes, img, size) ==
    [o \in RomOffsets |-> IF o < size /\ bytes[o] # NoByte THEN ImageByte(img, o)
                          ELSE bytes[o]]

\* The identification step as it would be if 0x2000 bytes already made a
\* BASIC cartridge.
IdentifyRaw_from2000(size) ==
    [m_type |-> IF size >= 8192 THEN APF_BASIC
                ELSE IF size = 6144 THEN APF_SPACEDST
                ELSE APF_STD,
     m_ram  |-> IF size = 6144 THEN ram_alloc(1024) ELSE [m_ram |-> m_ram, ram |-> ram]]

\* The variant and the RAM after the identification step of call_load.
IdentifyRaw(size) ==
    [m_type |-> IF size > 8192 THEN APF_BASIC                    \* 0x2000
                ELSE IF size = 6144 THEN APF_SPACEDST            \* 0x1800
                ELSE APF_STD,
     m_ram  |-> IF size = 6144 THEN ram_alloc(1024) ELSE [m_ram |-> m_ram, ram |-> ram]]

\* IdentifySoft as it would be if an entry without a "slot" feature selected
\* the default variant.
IdentifySoft_default_std(img) ==
    [m_type |-> IF img.slot # NoFeature THEN apf_get_pcb_id(img.slot) ELSE APF_STD,
     m_ram  |-> IF img.ram # NoRegion THEN ram_alloc(img.ram)
                ELSE [m_ram |-> m_ram, ram |-> ram]]

IdentifySoft(img) ==
    [m_type |-> IF img.slot # NoFeature THEN apf_get_pcb_id(img.slot) ELSE m_type,
     m_ram  |-> IF img.ram # NoRegion THEN ram_alloc(img.ram)
                ELSE [m_ram |-> m_ram, ram |-> ram]]

\* length() of a raw image file and get_software_region_length("rom") of a
\* software-list entry.
length(img) == img.length
get_software_region_length(img) == img.length.lo

call_load(img) ==
    /\ halt = "run"
    /\ apf_result' = NoRead /\ slot_string' = "none"
    /\ UNCHANGED <<vmeVars, peerVars, apf_card, m_cart>>
    /\ IF m_cart = "null"
       THEN /\ load_result' = "ok"
            /\ UNCHANGED <<halt, msg, m_type, m_rom, m_rom_size, rom, m_ram, ram, regions>>
       ELSE LET size == IF ~img.softlist THEN LengthAsUint32(length(img))
                        ELSE get_software_region_length(img)
            IN  IF size > 14336                                    \* 0x3800
                THEN /\ load_result' = "INVALIDLENGTH"
                     /\ UNCHANGED <<halt, msg, m_type, m_rom, m_rom_size, rom, m_ram,
                                    ram, regions>>
                ELSE LET a  == rom_alloc(size)
                         id == IF ~img.softlist THEN IdentifyRaw(size)
                               ELSE IdentifySoft(img)
                     IN  /\ m_rom' = a.m_rom
                         /\ m_rom_size' = a.m_rom_size
                         /\ regions' = a.regions
                         /\ rom' = CopyImage(a.rom, img, size)
                         /\ \/ /\ m_type' = id.m_type
                               /\ m_ram' = id.m_ram.m_ram
                               /\ ram' = id.m_ram.ram
                               /\ load_result' = "ok"
                               /\ UNCHANGED <<halt, msg>>
                            \/ \* the copy ran past the end of the region
                               /\ size > a.m_rom_size
                               /\ halt' = "segv"
                               /\ msg' = "call_load"
                               /\ load_result' = "none"
                               /\ UNCHANGED <<m_type, m_ram, ram>>

\* software_get_default_slot(default_slot): the option the software list names,
\* or default_slot.
software_get_default_slot(hook, default_slot) ==
    IF hook.softslot # NoFeature THEN hook.softslot ELSE default_slot

\* The string get_default_card_software returns.
default_card_software(hook) ==
    IF hook.has_file
    THEN LET size == hook.length
             type == IF size.hi > 0 \/ size.lo > 8192 THEN APF_BASIC   \* 0x2000
                     ELSE IF size.hi = 0 /\ size.lo = 6144 THEN APF_SPACEDST   \* 0x1800
                     ELSE APF_STD
         IN  apf_get_slot(type)
    ELSE software_get_default_slot(hook, "std")

\* get_default_card_software as it would be if it also recorded the variant it
\* found in m_type.
get_default_card_software_settype(hook) ==
    /\ halt = "run"
    /\ slot_string' = default_card_software(hook)
    /\ m_type' = apf_get_pcb_id(default_card_software(hook))
    /\ load_result' = "none" /\ apf_result' = NoRead
    /\ UNCHANGED <<vmeVars, peerVars, halt, msg, apf_card, m_cart, m_rom, m_rom_size, rom,
                   m_ram, ram, regions>>

get_default_card_software(hook) ==
    /\ halt = "run"
    /\ slot_string' = default_card_software(hook)
    /\ load_result' = "none" /\ apf_result' = NoRead
    /\ UNCHANGED <<vmeVars, peerVars, halt, msg, cartState>>

\* read_rom as it would be if the empty slot read as 0x00.
read_rom_zero(offset) ==
    /\ halt = "run"
    /\ apf_result' = IF m_cart # "null" THEN cart_read_rom(offset) ELSE 0
    /\ load_result' = "none" /\ slot_string' = "none"
    /\ UNCHANGED <<vmeVars, peerVars, halt, msg, cartState>>

read_rom(offset) ==
    /\ halt = "run"
    /\ apf_result' = IF m_cart # "null" THEN cart_read_rom(offset) ELSE 255
    /\ load_result' = "none" /\ slot_string' = "none"
    /\ UNCHANGED <<vmeVars, peerVars, halt, msg, cartState>>

extra_rom(offset) ==
    /\ halt = "run"
    /\ apf_result' = IF m_cart # "null" THEN cart_extra_rom(offset) ELSE 255
    /\ load_result' = "none" /\ slot_string' = "none"
    /\ UNCHANGED <<vmeVars, peerVars, halt, msg, cartState>>

\* read_ram as it would be without the test of m_cart.
read_ram_unchecked(offset) ==
    /\ halt = "run"
    /\ load_result' = "none" /\ slot_string' = "none"
    /\ IF m_cart # "null"
       THEN /\ apf_result' = cart_read_ram(offset)
            /\ UNCHANGED <<halt, msg>>
       ELSE /\ apf_result' = NoRead
            /\ halt' = "segv"
            /\ msg' = "read_ram"
    /\ UNCHANGED <<vmeVars, peerVars, cartState>>

read_ram(offset) ==
    /\ halt = "run"
    /\ apf_result' = IF m_cart # "null" THEN cart_read_ram(offset) ELSE 255
    /\ load_result' = "none" /\ slot_string' = "none"
    /\ UNCHANGED <<vmeVars, peerVars, halt, msg, cartState>>

write_ram(offset, data) ==
    /\ halt = "run"
    /\ ram' = IF m_cart # "null" THEN cart_write_ram(offset, data) ELSE ram
    /\ load_result' = "none" /\ apf_result' = NoRead /\ slot_string' = "none"
    /\ UNCHANGED <<vmeVars, peerVars, halt, msg, apf_card, m_cart, m_type, m_rom, m_rom_size,
                   rom, m_ram, regions>>

\* The operations of the APF slot, on every input of the model.
ApfStart    == apf_device_start
LoadImage   == \E img \in Images : call_load(img)
DefaultCard == \E hook \in Hooks : get_default_card_software(hook)
ReadRom     == \E offset \in ApfOffsets : read_rom(offset)
ExtraRom    == \E offset \in ApfOffsets : extra_rom(offset)
ReadRam     == \E offset \in ApfOffsets : read_ram(offset)
WriteRam    == \E offset \in ApfOffsets, data \in ApfData : write_ram(offset, data)

\* The accesses of the VME slots and cards, in any order.
Resolve    == \E k \in Slots : device_resolve_objects(k)
SlotRead8  == \E k \in Slots, offset \in Offsets : vme_slot_read8(k, offset)
SlotWrite8 == \E k \in Slots, offset \in Offsets, data \in {0, 255} :
                  vme_slot_write8(k, offset, data)
CardRead8  == \E c \in Cards, offset \in Offsets : card_read8(c, offset)
CardWrite8 == \E c \in Cards, offset \in Offsets, data \in {0, 255} :
                  card_write8(c, offset, data)

(***************************************************************************)
(* msx_cart_easispeech_device (slot.cpp:318-347)                           *)
(***************************************************************************)
\* The 'rom' regions a cartridge is built with: none, or one of these sizes.
RomRegionSizes == {0, 4096, 8191, 8192, 8193, 16384}
RomRegions == {NoRegion} \cup RomRegionSizes

\* The four 16 KiB pages of the cartridge's address space, nothing installed.
Pages == 0..3
NoInstalls == [p \in Pages |-> {}]

\* What install_rom, install_read_handler and install_write_handler record.
InstalledRom(first, last, mirror) ==
    [kind |-> "rom", first |-> first, last |-> last, mirror |-> mirror, handler |-> "base"]
InstalledHandler(kind, first, last, handler) ==
    [kind |-> kind, first |-> first, last |-> last, mirror |-> 0, handler |-> handler]

SpeechRead  == InstalledHandler("read", 32768, 32768, "speech_r")
SpeechWrite == InstalledHandler("write", 32768, 32768, "speech_w")

Bit(x, n) == (x \div (2 ^ n)) % 2

\* bitswap<6>(data, 3, 5, 7, 6, 4, 2): the listed bits of data, most significant first
bitswap6(data) ==
    32 * Bit(data, 3) + 16 * Bit(data, 5) + 8 * Bit(data, 7)
        + 4 * Bit(data, 6) + 2 * Bit(data, 4) + Bit(data, 2)

\* The data bytes written to, and the LRQ levels read from, the speech chip.
SpeechData == 0..255
LrqLevels == {0, 1}

initialize_cartridge_anysize ==
    /\ IF cart_rom_region = NoRegion
       THEN /\ es_message' = "msx_cart_easispeech_device: Required region 'rom' was not found."
            /\ es_error' = "INTERNAL"
            /\ page' = page
       ELSE /\ page' = [page EXCEPT ![1] = @ \cup {InstalledRom(16384, 24575, 8192)},
                                    ![2] = @ \cup {SpeechRead, SpeechWrite}]
            /\ es_error' = "ok"
            /\ es_message' = es_message
    /\ UNCHANGED <<cart_rom_region, ald, speech_result>>
    /\ UNCHANGED easiPeers

\* msx_cart_easispeech_device::initialize_cartridge(std::string &message)
initialize_cartridge ==
    /\ IF cart_rom_region = NoRegion
       THEN /\ es_message' = "msx_cart_easispeech_device: Required region 'rom' was not found."
            /\ es_error' = "INTERNAL"
            /\ page' = page
       ELSE IF cart_rom_region # 8192
       THEN /\ es_message' = "msx_cart_easispeech_device: Region 'rom' has unsupported size."
            /\ es_error' = "INVALIDLENGTH"
            /\ page' = page
       ELSE /\ page' = [page EXCEPT ![1] = @ \cup {InstalledRom(16384, 24575, 8192)},
                                    ![2] = @ \cup {SpeechRead, SpeechWrite}]
            /\ es_error' = "ok"
            /\ es_message' = es_message
    /\ UNCHANGED <<cart_rom_region, ald, speech_result>>
    /\ UNCHANGED easiPeers

\* msx_cart_easispeech_device::speech_r: return m_speech->lrq_r() << 7
speech_r(lrq) ==
    /\ speech_result' = (lrq * 128) % 256
    /\ UNCHANGED <<cart_rom_region, page, es_error, es_message, ald>>
    /\ UNCHANGED easiPeers

\* msx_cart_easispeech_device::speech_w: m_speech->ald_w(bitswap<6>(data, 3, 5, 7, 6, 4, 2))
speech_w(data) ==
    /\ ald' = bitswap6(data)
    /\ UNCHANGED <<cart_rom_region, page, es_error, es_message, speech_result>>
    /\ UNCHANGED easiPeers

\* An access of page 2 at 0x8000 reaches the handler installed there.
InitializeCartridge == initialize_cartridge
ReadSpeech  == \E lrq \in LrqLevels : SpeechRead \in page[2] /\ speech_r(lrq)
WriteSpeech == \E data \in SpeechData : SpeechWrite \in page[2] /\ speech_w(data)

(***************************************************************************)
(* apexc_cylinder_image_device (part_001:19-64)                            *)
(***************************************************************************)
\* A 32-bit word as its four bytes in memory order, and the word offsets of
\* the 0x400-word RAM that are tracked.
NoWord == <<>>
ZeroWord == <<0, 0, 0, 0>>
CylOffsets == {0, 1023}
StoredWords == {<<1, 2, 3, 4>>, <<0, 0, 0, 9>>}

\* The words of a cylinder image file of the given length in bytes, every
\* word of it holding the bytes w (NoWord: past the end of the file).
FileWords(len, w) == [i \in CylOffsets |-> IF 4 * i + 4 <= len THEN w ELSE NoWord]

\* The image files mounted: of 0x1000 bytes or shorter, read-only or not.
CylFileLengths == {4, 4096}
CylFiles ==
    { [readonly |-> ro, words |-> FileWords(len, w)] :
          ro \in BOOLEAN, len \in CylFileLengths, w \in {<<5, 6, 7, 8>>} }

ReverseBytes(w) == [i \in 1..Len(w) |-> w[Len(w) + 1 - i]]

\* big_endianize_int32: a byte swap on a little-endian host, nothing otherwise
big_endianize_int32(w) == IF lsb_first THEN ReverseBytes(w) ELSE w

\* is_readonly() of the mounted image
is_readonly == cyl_file.readonly

\* fread(ptr, 0x1000): the words the file has, over the RAM
fread(mem, file) ==
    [i \in CylOffsets |-> IF file.words[i] # NoWord THEN file.words[i] ELSE mem[i]]

\* fseek(0, SEEK_SET) and fwrite(ptr, 0x1000): the RAM over the file
fwrite(mem, file) == [file EXCEPT !.words = mem]

\* call_unload as it would be if it saved the RAM whatever m_writable holds.
cyl_call_unload_always ==
    LET swapped == [i \in CylOffsets |-> big_endianize_int32(maincpu_ram[i])] IN
    /\ cyl_open
    /\ maincpu_ram' = swapped
    /\ cyl_file' = fwrite(swapped, cyl_file)
    /\ fwrite_len' = 4096
    /\ cyl_open' = FALSE
    /\ UNCHANGED <<m_writable, lsb_first>>
    /\ UNCHANGED cylPeers

\* apexc_cylinder_image_device::call_load
cyl_call_load(file) ==
    /\ ~cyl_open
    /\ cyl_file' = file
    /\ cyl_open' = TRUE
    /\ m_writable' = ~file.readonly
    /\ maincpu_ram' = [i \in CylOffsets |-> big_endianize_int32(fread(maincpu_ram, file)[i])]
    /\ fwrite_len' = 0
    /\ UNCHANGED lsb_first
    /\ UNCHANGED cylPeers

\* apexc_cylinder_image_device::call_unload, after which the image is closed
cyl_call_unload ==
    LET swapped == [i \in CylOffsets |-> big_endianize_int32(maincpu_ram[i])] IN
    /\ cyl_open
    /\ IF m_writable
       THEN /\ maincpu_ram' = swapped
            /\ cyl_file' = fwrite(swapped, cyl_file)
            /\ fwrite_len' = 4096
       ELSE /\ fwrite_len' = 0
            /\ UNCHANGED <<maincpu_ram, cyl_file>>
    /\ cyl_open' = FALSE
    /\ UNCHANGED <<m_writable, lsb_first>>
    /\ UNCHANGED cylPeers

\* A store of the CPU into the RAM shared as "maincpu".
ram_store(i, w) ==
    /\ maincpu_ram' = [maincpu_ram EXCEPT ![i] = w]
    /\ UNCHANGED <<cyl_file, cyl_open, m_writable, fwrite_len, lsb_first>>
    /\ UNCHANGED cylPeers

MountCylinder == \E file \in CylFiles : cyl_call_load(file)
UnmountCylinder == cyl_call_unload
StoreWord == \E i \in CylOffsets, w \in StoredWords : ram_store(i, w)

(***************************************************************************)
(* mtx_state: bankswitch and the image loaders (part_003:76-145, 400-536)  *)
(***************************************************************************)
\* m_ram->size() of the configured machine.
MtxRamSizes == {32768, 65536}

\* The bytes written to the bankswitch port.
BankData == {0, 128}

\* An address range for which bankswitch installed the nop handler.
Nop == -1

\* The memory map before machine_reset: every bank at entry 0.
UnswitchedMap ==
    [cbm_mode |-> 0, rommap |-> <<0, 0, 0>>, rammap |-> <<0, 0, 0>>, nop |-> {}]

\* mtx_state::bankswitch(data), from the map b: the mode, the entry of each of
\* the six banks and the ranges (by number of their bank) left to the nop handler.
bankswitch(b, data) ==
    LET cbm_mode == (data \div 128) % 2
        rom_page == (data \div 16) % 8
        ram_page == data % 16
        size == mtx_ram_size
        ram1 == \/ (ram_page = 0 /\ size > 49152)
                \/ (ram_page > 0 /\ size > 16384 + ram_page * 49152)
        ram2 == \/ (ram_page = 0 /\ size > 32768)
                \/ (ram_page > 0 /\ size > 32768 + ram_page * 49152)
        ram3 == \/ (ram_page = 0 /\ size > 16384)
                \/ (ram_page > 0 /\ size > 49152 + ram_page * 49152)
        rom2 == size > 32768 + ram_page * 32768
        rom3 == size > 16384 + ram_page * 32768
    IN  IF cbm_mode = 1
        THEN [cbm_mode |-> 1,
              rommap |-> b.rommap,
              rammap |-> <<IF ram1 THEN ram_page ELSE b.rammap[1],
                           IF ram2 THEN ram_page ELSE b.rammap[2],
                           IF ram3 THEN ram_page ELSE b.rammap[3]>>,
              nop |-> {n \in 1..3 : ~<<ram1, ram2, ram3>>[n]}]
        ELSE [cbm_mode |-> 0,
              rommap |-> <<rom_page,
                           IF rom2 THEN ram_page ELSE b.rommap[2],
                           IF rom3 THEN ram_page ELSE b.rommap[3]>>,
              rammap |-> b.rammap,
              nop |-> {n \in 2..3 : ~<<TRUE, rom2, rom3>>[n]}]

\* The addresses of the program space whose last written byte is tracked.
MtxAddrs == {16384, 64329}

\* An image file: its length, the number of bytes fread delivers, and its
\* bytes: those of the header as given, the others (seed + index) % 256.
ImageFile(len, avail, header) ==
    [length |-> len, avail |-> avail, header |-> header, seed |-> 3]
DataByte(f, i) == IF i \in DOMAIN f.header THEN f.header[i] ELSE (f.seed + i) % 256

\* What an index past the end of the buffer reads: some byte.
Garbage == {0, 255}

\* data[i] of the buffer holding the file, g standing for the bytes past its end
BufferByte(f, i, g) == IF i < f.length THEN DataByte(f, i) ELSE g

\* pick_integer_le(data, offset, 2)
pick_integer_le(f, offset) == DataByte(f, offset) + 256 * DataByte(f, offset + 1)

\* uint16_t arithmetic
uint16(x) == x % 65536

\* The offset of address a from start in the 16-bit program space.
AddrOffset(a, start) == (a - start) % 65536

\* for (i = 0; i < n; i++) program.write_byte(start + i, data[first + i]):
\* the tracked bytes after the loop. With g = NoByte the loop stops at the
\* first index past the end of the buffer.
WriteRun(memory, f, start, n, first, g) ==
    [a \in DOMAIN memory |->
        LET i == AddrOffset(a, start) IN
        IF i < n /\ (first + i < f.length \/ g # NoByte)
        THEN BufferByte(f, first + i, g)
        ELSE memory[a]]

\* The files given to snapshot_cb: data[0] and the system variables base at
\* data[16..17] vary, with lengths around 18 and 0xc012.
SnapshotLengths == {17, 18, 20, 49169, 49170}
SystemBases == {<<0, 0>>, <<73, 251>>, <<0, 251>>, <<76, 251>>}
SnapshotFiles ==
    { ImageFile(len, len - short, (0 :> first) @@ (16 :> base[1]) @@ (17 :> base[2])) :
          len \in SnapshotLengths, short \in {0, 1}, first \in {255, 0}, base \in SystemBases }

\* The files given to quickload_cb: code base at data[0..1], code length at data[2..3].
QuickloadLengths == {3, 4, 5, 6, 49155, 49156}
CodeBases == {<<255, 63>>, <<0, 64>>, <<240, 255>>}
CodeLengths == {<<0, 0>>, <<2, 0>>, <<16, 0>>}
QuickloadFiles ==
    { ImageFile(len, len - short,
                (0 :> base[1]) @@ (1 :> base[2]) @@ (2 :> clen[1]) @@ (3 :> clen[2])) :
          len \in QuickloadLengths, short \in {0, 1}, base \in CodeBases, clen \in CodeLengths }

\* The "rom" regions given to extrom_load: size and first byte.
ExtromSizes == {8192, 524288, 524289}
ExtromImages == { [size |-> s, seed |-> 1] : s \in ExtromSizes }
\* m_extrom before any rom_alloc
NoExtrom == [size |-> 0, seed |-> 0]

\* mtx_state::mtx_bankswitch_w
mtx_bankswitch_w(data) ==
    /\ halt = "run"
    /\ driver = "mtx"
    /\ bank' = bankswitch(bank, data)
    /\ img_result' = "none"
    /\ max_index' = NoRead
    /\ data_length' = NoRead
    /\ UNCHANGED <<driver, mtx_ram_size, program_mem, maincpu_pc, extrom, c64_mem>>
    /\ UNCHANGED mtxPeers

\* mtx_state::extrom_load
extrom_load(img) ==
    LET size == img.size IN
    /\ halt = "run"
    /\ driver = "mtx"
    /\ max_index' = NoRead
    /\ data_length' = NoRead
    /\ IF size > 524288
       THEN /\ img_result' = "INVALIDLENGTH"
            /\ UNCHANGED extrom
       ELSE /\ extrom' = img
            /\ img_result' = "ok"
    /\ UNCHANGED <<driver, mtx_ram_size, bank, program_mem, maincpu_pc, c64_mem>>
    /\ UNCHANGED mtxPeers

\* snapshot_cb as it would be if it reset the memory map before verifying
\* the first byte of the file.
snapshot_cb_resets_early(f) ==
    LET file_length == f.length
        system_variables_base == pick_integer_le(f, 16)
        system_variables_size ==
            IF system_variables_base # 0 THEN uint16(64331 - system_variables_base) ELSE 0
        data_size == uint16(file_length - 18 - system_variables_size)
        last == IF data_size > 0 THEN 18 + system_variables_size + data_size - 1
                ELSE IF system_variables_size > 0 THEN 18 + system_variables_size - 1
                ELSE 17
        loaded(g) == WriteRun(WriteRun(program_mem, f, system_variables_base,
                                       system_variables_size, 18, g),
                              f, 16384, data_size, 18 + system_variables_size, g)
    IN
    /\ halt = "run"
    /\ driver = "mtx"
    /\ IF file_length < 18 \/ file_length >= 49170
       THEN /\ img_result' = "INVALIDLENGTH"
            /\ max_index' = NoRead
            /\ data_length' = NoRead
            /\ UNCHANGED <<bank, program_mem, halt, msg>>
       ELSE IF f.avail # file_length
       THEN /\ img_result' = "UNSPECIFIED"
            /\ max_index' = NoRead
            /\ data_length' = NoRead
            /\ UNCHANGED <<bank, program_mem, halt, msg>>
       ELSE IF DataByte(f, 0) # 255
       THEN /\ img_result' = "INVALIDIMAGE"
            /\ max_index' = 0
            /\ data_length' = file_length
            /\ bank' = bankswitch(bank, 0)
            /\ UNCHANGED <<program_mem, halt, msg>>
       ELSE /\ bank' = bankswitch(bank, 0)
            /\ max_index' = last
            /\ data_length' = file_length
            /\ IF last < file_length
               THEN /\ program_mem' = loaded(0)
                    /\ img_result' = "ok"
                    /\ UNCHANGED <<halt, msg>>
               ELSE \/ \E g \in Garbage :
                          /\ program_mem' = loaded(g)
                          /\ img_result' = "ok"
                          /\ UNCHANGED <<halt, msg>>
                    \/ /\ program_mem' = loaded(NoByte)
                       /\ img_result' = "none"
                       /\ halt' = "segv"
                       /\ msg' = "snapshot_cb"
    /\ UNCHANGED <<driver, mtx_ram_size, maincpu_pc, extrom, c64_mem>>
    /\ UNCHANGED mtxOthers

\* mtx_state::snapshot_cb
snapshot_cb(f) ==
    LET file_length == f.length
        system_variables_base == pick_integer_le(f, 16)
        system_variables_size ==
            IF system_variables_base # 0 THEN uint16(64331 - system_variables_base) ELSE 0
        data_size == uint16(file_length - 18 - system_variables_size)
        last == IF data_size > 0 THEN 18 + system_variables_size + data_size - 1
                ELSE IF system_variables_size > 0 THEN 18 + system_variables_size - 1
                ELSE 17
        loaded(g) == WriteRun(WriteRun(program_mem, f, system_variables_base,
                                       system_variables_size, 18, g),
                              f, 16384, data_size, 18 + system_variables_size, g)
    IN
    /\ halt = "run"
    /\ driver = "mtx"
    /\ IF file_length < 18 \/ file_length >= 49170
       THEN /\ img_result' = "INVALIDLENGTH"
            /\ max_index' = NoRead
            /\ data_length' = NoRead
            /\ UNCHANGED <<bank, program_mem, halt, msg>>
       ELSE IF f.avail # file_length
       THEN /\ img_result' = "UNSPECIFIED"
            /\ max_index' = NoRead
            /\ data_length' = NoRead
            /\ UNCHANGED <<bank, program_mem, halt, msg>>
       ELSE IF DataByte(f, 0) # 255
       THEN /\ img_result' = "INVALIDIMAGE"
            /\ max_index' = 0
            /\ data_length' = file_length
            /\ UNCHANGED <<bank, program_mem, halt, msg>>
       ELSE /\ bank' = bankswitch(bank, 0)
            /\ max_index' = last
            /\ data_length' = file_length
            /\ IF last < file_length
               THEN /\ program_mem' = loaded(0)
                    /\ img_result' = "ok"
                    /\ UNCHANGED <<halt, msg>>
               ELSE \/ \E g \in Garbage :
                          /\ program_mem' = loaded(g)
                          /\ img_result' = "ok"
                          /\ UNCHANGED <<halt, msg>>
                    \/ /\ program_mem' = loaded(NoByte)
                       /\ img_result' = "none"
                       /\ halt' = "segv"
                       /\ msg' = "snapshot_cb"
    /\ UNCHANGED <<driver, mtx_ram_size, maincpu_pc, extrom, c64_mem>>
    /\ UNCHANGED mtxOthers

\* mtx_state::quickload_cb
quickload_cb(f) ==
    LET file_length == f.length
        code_base == pick_integer_le(f, 0)
        code_length == pick_integer_le(f, 2)
        last == IF code_length > 0 THEN 4 + code_length - 1 ELSE 3
        loaded(g) == WriteRun(program_mem, f, code_base, code_length, 4, g)
    IN
    /\ halt = "run"
    /\ driver = "mtx"
    /\ IF file_length < 4 \/ file_length >= 49156
       THEN /\ img_result' = "INVALIDLENGTH"
            /\ max_index' = NoRead
            /\ data_length' = NoRead
            /\ UNCHANGED <<bank, program_mem, maincpu_pc, halt, msg>>
       ELSE IF f.avail # file_length
       THEN /\ img_result' = "UNSPECIFIED"
            /\ max_index' = NoRead
            /\ data_length' = NoRead
            /\ UNCHANGED <<bank, program_mem, maincpu_pc, halt, msg>>
       ELSE IF file_length < code_length
       THEN /\ img_result' = "INVALIDIMAGE"
            /\ max_index' = 3
            /\ data_length' = file_length
            /\ UNCHANGED <<bank, program_mem, maincpu_pc, halt, msg>>
       ELSE IF code_base < 16384 \/ code_base + code_length >= 65536
       THEN /\ img_result' = "INVALIDIMAGE"
            /\ max_index' = 3
            /\ data_length' = file_length
            /\ UNCHANGED <<bank, program_mem, maincpu_pc, halt, msg>>
       ELSE /\ bank' = bankswitch(bank, 0)
            /\ max_index' = last
            /\ data_length' = file_length
            /\ IF last < file_length
               THEN /\ program_mem' = loaded(0)
                    /\ maincpu_pc' = code_base
                    /\ img_result' = "ok"
                    /\ UNCHANGED <<halt, msg>>
               ELSE \/ \E g \in Garbage :
                          /\ program_mem' = loaded(g)
                          /\ maincpu_pc' = code_base
                          /\ img_result' = "ok"
                          /\ UNCHANGED <<halt, msg>>
                    \/ /\ program_mem' = loaded(NoByte)
                       /\ img_result' = "none"
                       /\ halt' = "segv"
                       /\ msg' = "quickload_cb"
                       /\ UNCHANGED maincpu_pc
    /\ UNCHANGED <<driver, mtx_ram_size, extrom, c64_mem>>
    /\ UNCHANGED mtxOthers

\* mtx_state::machine_reset: the extension ROM, if any, becomes entry 2 of
\* the ROM bank; bankswitch(0).
machine_reset ==
    /\ halt = "run"
    /\ driver = "mtx"
    /\ bank' = bankswitch(bank, 0)
    /\ img_result' = "none"
    /\ max_index' = NoRead
    /\ data_length' = NoRead
    /\ UNCHANGED <<driver, mtx_ram_size, program_mem, maincpu_pc, extrom, c64_mem>>
    /\ UNCHANGED mtxPeers

(***************************************************************************)
(* general_cbm_loadsnap (part_003:616-683)                                 *)
(***************************************************************************)
\* The addresses of the space whose last written byte is tracked: the eight
\* bytes cbm_quick_sethiaddress writes, and four load addresses.
HiAddressLow  == {174, 49, 47, 45}
HiAddressHigh == {175, 50, 48, 46}
CbmAddrs == HiAddressLow \cup HiAddressHigh \cup {2049, 4096, 4097}

\* The bytes before the load address: none in a prg file, 26 in a p00 file,
\* 94 in a t64 file.
HeaderSkip(filetype) ==
    CASE filetype = "prg" -> 0 [] filetype = "p00" -> 26 [] filetype = "t64" -> 94

\* The first seven bytes of a file, which memcmp compares with the magic.
SevenOf(magic) == SubSeq(magic, 1, 7)
C64File == <<"C", "6", "4", "F", "i", "l", "e">>
C64TapeImageFile == <<"C", "6", "4", " ", "t", "a", "p", "e", " ", "i", "m", "a", "g", "e",
                      " ", "f", "i", "l", "e">>

\* The files given to general_cbm_loadsnap: type, length, the number of bytes
\* fread delivers, the first seven bytes, and the load address stored in them.
CbmFileTypes == {"prg", "p00", "t64", "crt"}
CbmLengths == {1, 2, 4, 6, 27, 30, 98}
CbmFiles ==
    { [filetype |-> t, length |-> len, avail |-> len - short, first7 |-> m,
       address |-> addr, seed |-> 3] :
          t \in CbmFileTypes, len \in CbmLengths, short \in {0, 1},
          m \in {C64File, SevenOf(C64TapeImageFile), SevenOf(<<"G", "A", "R", "B", "A", "G", "E">>)},
          addr \in {4096} }

\* image.fread(buffer, n) at position pos: the number of bytes delivered
FreadCount(f, pos, n) ==
    IF f.avail <= pos THEN 0 ELSE IF f.avail - pos < n THEN f.avail - pos ELSE n

\* cbm_quick_sethiaddress(space, hiaddress)
cbm_quick_sethiaddress(space, hiaddress) ==
    [a \in DOMAIN space |->
        IF a \in HiAddressLow THEN hiaddress % 256
        ELSE IF a \in HiAddressHigh THEN hiaddress \div 256
        ELSE space[a]]

\* general_cbm_loadsnap(image, space, offset, cbm_sethiaddress), called with
\* cbm_quick_sethiaddress. A negative snapshot_size makes data.resize throw;
\* &data[0] of the empty vector, for a snapshot_size of 0, is an invalid access
\* that a checked build stops at.
general_cbm_loadsnap(f, offset) ==
    LET known == f.filetype \in {"prg", "p00", "t64"}
        skip == IF known THEN HeaderSkip(f.filetype) ELSE 0
        magic == IF f.filetype = "p00" THEN C64File ELSE SevenOf(C64TapeImageFile)
        snapshot_size == f.length - skip - 2
        address == IF f.filetype = "t64" THEN 2049
                   ELSE IF FreadCount(f, skip, 2) = 2 THEN f.address ELSE 0
        bytesread == FreadCount(f, skip + 2, snapshot_size)
        written == [a \in CbmAddrs |->
                       LET i == AddrOffset(a, address + offset) IN
                       IF i < snapshot_size THEN (f.seed + skip + 2 + i) % 256 ELSE c64_mem[a]]
    IN
    /\ halt = "run"
    /\ driver = "cbm"
    /\ max_index' = NoRead
    /\ data_length' = NoRead
    /\ IF ~known
       THEN /\ img_result' = "UNSUPPORTED"
            /\ UNCHANGED <<c64_mem, halt, msg>>
       ELSE IF skip > 0 /\ FreadCount(f, 0, 7) # 7
       THEN /\ img_result' = "UNSPECIFIED"
            /\ UNCHANGED <<c64_mem, halt, msg>>
       ELSE IF skip > 0 /\ f.first7 # SevenOf(magic)
       THEN /\ img_result' = "INVALIDIMAGE"
            /\ UNCHANGED <<c64_mem, halt, msg>>
       ELSE IF snapshot_size < 0
       THEN /\ img_result' = "none"
            /\ halt' = "fatal"
            /\ msg' = "general_cbm_loadsnap"
            /\ UNCHANGED c64_mem
       ELSE IF bytesread # snapshot_size
       THEN /\ img_result' = "UNSPECIFIED"
            /\ UNCHANGED <<c64_mem, halt, msg>>
       ELSE \/ /\ c64_mem' = cbm_quick_sethiaddress(written, uint16(address + snapshot_size))
               /\ img_result' = "ok"
               /\ UNCHANGED <<halt, msg>>
            \/ /\ snapshot_size = 0
               /\ img_result' = "none"
               /\ halt' = "fatal"
               /\ msg' = "general_cbm_loadsnap"
               /\ UNCHANGED c64_mem
    /\ UNCHANGED <<driver, mtx_ram_size, bank, program_mem, maincpu_pc, extrom>>
    /\ UNCHANGED mtxOthers

BankswitchW == \E data \in BankData : mtx_bankswitch_w(data)
ExtromLoad == \E img \in ExtromImages : extrom_load(img)
SnapshotLoad == \E f \in SnapshotFiles : snapshot_cb(f)
QuickLoad == \E f \in QuickloadFiles : quickload_cb(f)
MachineReset == machine_reset
CbmLoad == \E f \in CbmFiles : general_cbm_loadsnap(f, 0)

(***************************************************************************)
(* x68k_hdc_image_device: the SASI controller (part_002:27-404)            *)
(***************************************************************************)
\* The bits of the status port.
SASI_STATUS_REQ == 1
SASI_STATUS_BSY == 2
SASI_STATUS_IO  == 4
SASI_STATUS_CD  == 8
SASI_STATUS_MSG == 16

\* The command codes.
SASI_CMD_REZERO_UNIT    == 1
SASI_CMD_REQUEST_SENSE  == 3
SASI_CMD_FORMAT_UNIT    == 4
SASI_CMD_FORMAT_UNIT_06 == 6
SASI_CMD_READ           == 8
SASI_CMD_WRITE          == 10
SASI_CMD_SEEK           == 11
SASI_CMD_SPECIFY        == 194

Phases == {"BUSFREE", "SELECTION", "COMMAND", "READ", "WRITE", "STATUS", "MESSAGE"}

\* a | b and a & ~b on the status port
BitOr(a, b) == a + b - BitAnd(a, b)
BitClear(a, b) == a - BitAnd(a, b)

\* The commands the host sends, byte by byte: each of the implemented ones,
\* with block counts 0 and 1 and sense lengths 0, 2 and 6, a command of each
\* longer class and one that is not implemented.
HostCommands ==
    { <<1, 0, 0, 0, 0, 0>>,
      <<3, 0, 0, 0, 0, 0>>, <<3, 0, 0, 2, 0, 0>>, <<3, 0, 0, 6, 0, 0>>,
      <<4, 0, 0, 0, 1, 0>>, <<6, 0, 0, 1, 1, 0>>,
      <<8, 0, 0, 0, 1, 0>>, <<8, 0, 0, 0, 0, 0>>,
      <<10, 0, 0, 0, 1, 0>>, <<10, 0, 0, 0, 0, 0>>,
      <<11, 0, 0, 0, 0, 0>>,
      <<194, 0, 0, 0, 0, 0>>,
      <<0, 0, 0, 0, 0, 0>>,
      <<32, 0, 0, 0, 0, 0, 0, 0, 0, 1>>,
      <<64, 0, 0, 0, 0, 0, 0, 2>> }

\* The bytes the host may write next in the command phase: those that extend
\* the bytes received so far to the beginning of one of its commands.
NextCommandBytes ==
    { c[m_command_byte_count + 1] :
        c \in { h \in HostCommands :
                  /\ Len(h) > m_command_byte_count
                  /\ \A i \in 1..m_command_byte_count : h[i] = m_command[i - 1] } }

\* The data the host writes to the data port outside the command phase, and
\* to the other ports.
HostData == {0, 85}

\* The offsets of the controller's ports, and one past them.
HdcOffsets == 0..4

\* The positions of the image whose bytes are tracked; an image made by
\* call_create holds zeroes.
HdOffsets == {0, 255, 256}
SenseIndexes == 0..3

\* fread(&val, 1) and fwrite(&data, 1) at the current position
ImageByteAt(pos) == IF pos \in HdOffsets THEN hd_data[pos] ELSE 0
ImageWrite(pos, data) ==
    IF pos \in HdOffsets THEN [hd_data EXCEPT ![pos] = data % 256] ELSE hd_data

\* fwrite(&blk[0], 256 * 33) of zeroes at pos
ImageFormat(pos) ==
    [p \in HdOffsets |-> IF p >= pos /\ p < pos + 256 * 33 THEN 0 ELSE hd_data[p]]

\* lba of a READ, WRITE or FORMAT UNIT command
Lba(command) == command[3] + 256 * command[2] + 65536 * BitAnd(command[1], 31)

\* The command length as it would be if every class had six bytes.
CommandLength_six(data) == 6

\* The number of bytes of a command, from the class in the top three bits of
\* its first byte.
CommandLength(data) ==
    CASE data \div 32 = 0 -> 6
      [] data \div 32 = 1 -> 10
      [] data \div 32 = 2 -> 8
      [] OTHER -> 6

\* x68k_hdc_image_device::req_timer_callback
req_timer_callback ==
    /\ halt = "run"
    /\ m_req_timer = "armed"
    /\ m_req_timer' = "off"
    /\ m_status_port' = BitOr(m_status_port, SASI_STATUS_REQ)
    /\ hdc_result' = NoRead
    /\ UNCHANGED <<hdc_started, hd_exists, m_phase, m_status, m_command, m_sense,
                   m_command_byte_count, m_command_byte_total, m_current_command,
                   m_transfer_byte_count, m_transfer_byte_total, hd_pos, hd_data>>
    /\ UNCHANGED sasiPeers

\* x68k_hdc_image_device::device_start
hdc_device_start ==
    /\ halt = "run"
    /\ ~hdc_started
    /\ hdc_started' = TRUE
    /\ m_status' = 0
    /\ m_status_port' = 0
    /\ m_phase' = "BUSFREE"
    /\ m_req_timer' = "off"
    /\ hdc_result' = NoRead
    /\ UNCHANGED <<hd_exists, m_command, m_sense, m_command_byte_count,
                   m_command_byte_total, m_current_command, m_transfer_byte_count,
                   m_transfer_byte_total, hd_pos, hd_data>>
    /\ UNCHANGED sasiPeers

\* hdc_w, offset 0 in the WRITE phase
hdc_w_data(data) ==
    LET total == IF m_transfer_byte_count = 0
                 THEN CASE m_command[0] = SASI_CMD_SPECIFY -> 10
                        [] m_command[0] = SASI_CMD_WRITE -> 256 * m_command[4]
                        [] OTHER -> 256
                 ELSE m_transfer_byte_total
        writing == m_command[0] = SASI_CMD_WRITE
        no_hd == writing /\ ~hd_exists
        port1 == IF no_hd THEN BitOr(m_status_port, SASI_STATUS_IO) ELSE m_status_port
        port2 == BitClear(port1, SASI_STATUS_REQ)
        count == m_transfer_byte_count + 1
    IN
    /\ m_transfer_byte_total' = total
    /\ m_status' = IF no_hd THEN 2 ELSE m_status
    /\ IF writing /\ hd_exists
       THEN hd_data' = ImageWrite(hd_pos, data) /\ hd_pos' = hd_pos + 1
       ELSE UNCHANGED <<hd_data, hd_pos>>
    /\ m_req_timer' = "armed"
    /\ m_transfer_byte_count' = count
    /\ IF count >= total
       THEN /\ m_phase' = "STATUS"
            /\ m_status_port' = BitOr(BitOr(port2, SASI_STATUS_IO), SASI_STATUS_CD)
       ELSE /\ m_phase' = IF no_hd THEN "STATUS" ELSE m_phase
            /\ m_status_port' = port2
    /\ UNCHANGED <<m_command, m_sense, m_command_byte_count, m_command_byte_total,
                   m_current_command, halt, msg>>

\* hdc_w, offset 0 in the COMMAND phase: the end of the command
hdc_w_execute(command, port) ==
    LET io == BitOr(port, SASI_STATUS_IO)
        io_cd == BitOr(io, SASI_STATUS_CD)
        io_data == BitClear(io, SASI_STATUS_CD)
        out_data == BitClear(BitClear(port, SASI_STATUS_IO), SASI_STATUS_CD)
        op == command[0]
        transfer(phase, p) ==
            /\ m_phase' = phase
            /\ m_status_port' = p
            /\ m_transfer_byte_count' = 0
            /\ m_transfer_byte_total' = 0
        status(p, s) ==
            /\ m_phase' = "STATUS"
            /\ m_status_port' = p
            /\ m_status' = s
            /\ UNCHANGED <<m_transfer_byte_count, m_transfer_byte_total>>
    IN
    CASE op = SASI_CMD_REZERO_UNIT ->
            status(io, m_status) /\ UNCHANGED <<hd_pos, hd_data, halt, msg>>
      [] op = SASI_CMD_REQUEST_SENSE ->
            /\ transfer("READ", io_data)
            /\ UNCHANGED <<m_status, hd_pos, hd_data, halt, msg>>
      [] op = SASI_CMD_SPECIFY ->
            /\ transfer("WRITE", out_data)
            /\ UNCHANGED <<m_status, hd_pos, hd_data, halt, msg>>
      [] op = SASI_CMD_READ ->
            IF ~hd_exists
            THEN status(io_cd, 2) /\ UNCHANGED <<hd_pos, hd_data, halt, msg>>
            ELSE /\ transfer("READ", io_data)
                 /\ hd_pos' = Lba(command) * 256
                 /\ UNCHANGED <<m_status, hd_data, halt, msg>>
      [] op = SASI_CMD_WRITE ->
            IF ~hd_exists
            THEN status(io_cd, 2) /\ UNCHANGED <<hd_pos, hd_data, halt, msg>>
            ELSE /\ transfer("WRITE", out_data)
                 /\ hd_pos' = Lba(command) * 256
                 /\ UNCHANGED <<m_status, hd_data, halt, msg>>
      [] op = SASI_CMD_SEEK ->
            status(io_cd, m_status) /\ UNCHANGED <<hd_pos, hd_data, halt, msg>>
      [] op \in {SASI_CMD_FORMAT_UNIT, SASI_CMD_FORMAT_UNIT_06} ->
            /\ status(io_cd, m_status)
            /\ IF hd_exists
               THEN /\ hd_data' = ImageFormat(Lba(command) * 256)
                    /\ hd_pos' = Lba(command) * 256 + 256 * 33
                    /\ UNCHANGED <<halt, msg>>
               ELSE \* fseek and fwrite without an image file
                    \/ UNCHANGED <<hd_pos, hd_data, halt, msg>>
                    \/ /\ halt' = "segv"
                       /\ msg' = "hdc_w"
                       /\ UNCHANGED <<hd_pos, hd_data>>
      [] OTHER ->
            status(io, 2) /\ UNCHANGED <<hd_pos, hd_data, halt, msg>>

\* hdc_w, offset 0 in the COMMAND phase
hdc_w_command(data) ==
    LET total == IF m_command_byte_count = 0 THEN CommandLength(data)
                 ELSE m_command_byte_total
        command == [m_command EXCEPT ![m_command_byte_count] = data % 256]
        port == BitClear(m_status_port, SASI_STATUS_REQ)
        count == m_command_byte_count + 1
    IN
    /\ m_current_command' = IF m_command_byte_count = 0 THEN data ELSE m_current_command
    /\ m_command_byte_total' = total
    /\ m_command' = command
    /\ m_req_timer' = "armed"
    /\ m_command_byte_count' = count
    /\ IF count >= total
       THEN hdc_w_execute(command, port)
       ELSE /\ m_status_port' = port
            /\ UNCHANGED <<m_phase, m_status, m_transfer_byte_count,
                           m_transfer_byte_total, hd_pos, hd_data, halt, msg>>
    /\ UNCHANGED m_sense

\* Everything of the controller but the phase and the status port.
hdcRest == <<m_status, m_command, m_sense, m_command_byte_count, m_command_byte_total,
             m_current_command, m_transfer_byte_count, m_transfer_byte_total,
             m_req_timer, hd_pos, hd_data, halt, msg>>

\* hdc_w, offset 3, as it would be if it selected the controller in any phase.
hdc_w_select_anyphase(data) ==
    IF data # 0
    THEN /\ m_phase' = "SELECTION"
         /\ m_status_port' = BitOr(m_status_port, SASI_STATUS_BSY)
         /\ UNCHANGED hdcRest
    ELSE UNCHANGED <<m_phase, m_status_port, hdcRest>>

\* hdc_w, offset 3: SEL low
hdc_w_select(data) ==
    IF data # 0 /\ m_phase = "BUSFREE"
    THEN /\ m_phase' = "SELECTION"
         /\ m_status_port' = BitOr(m_status_port, SASI_STATUS_BSY)
         /\ UNCHANGED hdcRest
    ELSE UNCHANGED <<m_phase, m_status_port, hdcRest>>

\* x68k_hdc_image_device::hdc_w
hdc_w(offset, data) ==
    /\ halt = "run"
    /\ hdc_started
    /\ hdc_result' = NoRead
    /\ CASE offset = 0 /\ m_phase = "WRITE" -> hdc_w_data(data)
         [] offset = 0 /\ m_phase = "COMMAND" -> hdc_w_command(data)
         [] offset = 1 /\ data = 0 /\ m_phase = "SELECTION" ->
                /\ m_phase' = "COMMAND"
                /\ m_status_port' = BitOr(m_status_port, SASI_STATUS_CD)
                /\ m_command_byte_count' = 0
                /\ m_command_byte_total' = 0
                /\ m_req_timer' = "armed"
                /\ UNCHANGED <<m_status, m_command, m_sense, m_current_command,
                               m_transfer_byte_count, m_transfer_byte_total,
                               hd_pos, hd_data, halt, msg>>
         [] offset = 3 -> hdc_w_select(data)
         [] OTHER -> UNCHANGED <<m_phase, m_status_port, hdcRest>>
    /\ UNCHANGED <<hdc_started, hd_exists>>
    /\ UNCHANGED sasiOthers

\* hdc_r, offset 0 in the READ phase; g stands for what an index past the end
\* of m_sense reads.
hdc_r_data(g) ==
    LET first == m_transfer_byte_count = 0
        op == m_command[0]
        sense == IF first /\ op = SASI_CMD_REQUEST_SENSE
                 THEN [i \in SenseIndexes |-> IF i = 0 THEN 1 ELSE 0]
                 ELSE m_sense
        total == IF ~first THEN m_transfer_byte_total
                 ELSE CASE op = SASI_CMD_REQUEST_SENSE ->
                               IF m_command[3] = 0 THEN 4 ELSE m_command[3]
                        [] op = SASI_CMD_READ -> 256 * m_command[4]
                        [] OTHER -> 0
        no_hd == op = SASI_CMD_READ /\ ~hd_exists
        retval == CASE op = SASI_CMD_REQUEST_SENSE ->
                           IF m_transfer_byte_count \in SenseIndexes
                           THEN sense[m_transfer_byte_count] ELSE g
                    [] op = SASI_CMD_READ ->
                           IF hd_exists THEN ImageByteAt(hd_pos) ELSE 255
                    [] OTHER -> 0
        port1 == IF no_hd THEN BitOr(m_status_port, SASI_STATUS_IO) ELSE m_status_port
        port2 == BitClear(port1, SASI_STATUS_REQ)
        count == m_transfer_byte_count + 1
    IN
    /\ m_sense' = sense
    /\ m_transfer_byte_total' = total
    /\ m_status' = IF no_hd THEN 2 ELSE m_status
    /\ hd_pos' = IF op = SASI_CMD_READ /\ hd_exists THEN hd_pos + 1 ELSE hd_pos
    /\ m_req_timer' = "armed"
    /\ m_transfer_byte_count' = count
    /\ IF count >= total
       THEN /\ m_phase' = "STATUS"
            /\ m_status_port' = BitOr(BitOr(port2, SASI_STATUS_IO), SASI_STATUS_CD)
       ELSE /\ m_phase' = IF no_hd THEN "STATUS" ELSE m_phase
            /\ m_status_port' = port2
    /\ hdc_result' = retval

\* hdc_r, offset 0 in the MESSAGE phase, as it would be if it left the status
\* byte of the finished command in place.
hdc_r_message_keeps_status ==
    /\ m_phase' = "BUSFREE"
    /\ m_status_port' = 0
    /\ hdc_result' = 0
    /\ UNCHANGED <<m_status, m_sense, m_transfer_byte_count, m_transfer_byte_total,
                   m_req_timer, hd_pos>>

\* hdc_r, offset 0 in the MESSAGE phase: the bus is released; the REQ timer
\* is left as it is.
hdc_r_message ==
    /\ m_phase' = "BUSFREE"
    /\ m_status' = 0
    /\ m_status_port' = 0
    /\ hdc_result' = 0
    /\ UNCHANGED <<m_sense, m_transfer_byte_count, m_transfer_byte_total,
                   m_req_timer, hd_pos>>

\* x68k_hdc_image_device::hdc_r
hdc_r(offset) ==
    /\ halt = "run"
    /\ hdc_started
    /\ CASE offset = 0 /\ m_phase = "MESSAGE" -> hdc_r_message
         [] offset = 0 /\ m_phase = "STATUS" ->
                /\ m_phase' = "MESSAGE"
                /\ m_status_port' = BitClear(BitOr(m_status_port, SASI_STATUS_MSG),
                                             SASI_STATUS_REQ)
                /\ m_req_timer' = "armed"
                /\ hdc_result' = m_status
                /\ UNCHANGED <<m_status, m_sense, m_transfer_byte_count,
                               m_transfer_byte_total, hd_pos>>
         [] offset = 0 /\ m_phase = "READ" ->
                \E g \in Garbage : hdc_r_data(g)
         [] OTHER ->
                /\ hdc_result' = CASE offset = 0 -> 0
                                   [] offset = 1 -> m_status_port
                                   [] OTHER -> 255
                /\ UNCHANGED <<m_phase, m_status, m_status_port, m_sense,
                               m_transfer_byte_count, m_transfer_byte_total,
                               m_req_timer, hd_pos>>
    /\ UNCHANGED <<hdc_started, hd_exists, m_command, m_command_byte_count,
                   m_command_byte_total, m_current_command, hd_data>>
    /\ UNCHANGED sasiPeers

HdcStart == hdc_device_start
ReqTimer == req_timer_callback
HdcWrite ==
    \E offset \in HdcOffsets :
        \E data \in IF offset = 0 /\ m_phase = "COMMAND" THEN NextCommandBytes ELSE HostData :
            hdc_w(offset, data)
HdcRead == \E offset \in HdcOffsets : hdc_r(offset)

(***************************************************************************)
(* taitopjc_state: the Power-JC mailbox between the PowerPC and the I/O    *)
(* CPU, and the DSP's polygon ROM port (part_001:481-531, 683-733,         *)
(* 758-765, 801-834, 919-933)                                              *)
(***************************************************************************)
ASSERT_LINE == "ASSERT_LINE"
CLEAR_LINE  == "CLEAR_LINE"

\* The words of m_io_share_ram that are tracked: those the two mailbox
\* registers lie in.  Writes elsewhere in the shared RAM are not recorded.
ShareWords == {4094, 4095}                        \* 0xffe, 0xfff

\* The PowerPC's accesses: 64-bit word offsets, the two 16-bit lanes of the
\* data that reach the shared RAM, and the lanes mem_mask enables.
PpcOffsets == {0, 2047}                           \* 0x7ff
PpcWords   == {0, 28672, 53248}                   \* 0x7000, 0xd000
PpcData    == [w48 : PpcWords, w16 : PpcWords]
PpcMasks   == [bits_48_63 : BOOLEAN, bits_16_31 : BOOLEAN]

\* The I/O CPU's accesses: byte offsets and bytes.
TlcsOffsets == {0, 8188, 8189, 8190, 8191}        \* 0x1ffc .. 0x1fff
TlcsData    == {0, 112, 208}                      \* 0x70, 0xd0
\* tlcs_unk_w: the word offset of the reset register and another one
UnkOffsets  == {0, 6}
UnkData     == {0, 4}

\* The DSP's accesses.
DspShareOffsets == {0, 4092}                      \* 0xffc
DspShareData    == {0, 1}
RomAddressWords == {0, 127, 128, 65535}           \* 0x7f, 0x80, 0xffff

\* What the last operation returned when it was not a read.
NoPjcRead == [w48 |-> NoRead, w16 |-> NoRead]

\* How far the reads of the ROM port are followed past an address written:
\* the port is read while the low half of the address is less than MaxReads
\* past one of the words written, and carries into the upper half only from
\* one of the words written.
MaxReads == 3

\* The number of 16-bit words of the "poly" region (0x1000000 bytes), the
\* bound of the assertion in dsp_rom_r.
PolyRomWords == 8388608

\* The word of the polygon ROM at an address below PolyRomWords.
PolyWord(address) == (address.hi + address.lo) % 65536

\* m_dsp_rom_address < 0x800000, on the two halves of the uint32_t
InPolyRom(address) == address.hi < PolyRomWords \div 65536

\* m_dsp_rom_address++ on a uint32_t
Increment32(address) ==
    IF address.lo < 65535 THEN U32(address.hi, address.lo + 1)
    ELSE U32((address.hi + 1) % 65536, 0)

ShareWord(address) == IF address \in ShareWords THEN m_io_share_ram[address] ELSE 0
ShareStore(share, address, value) ==
    IF address \in ShareWords THEN [share EXCEPT ![address] = value] ELSE share

\* taitopjc_state::ppc_common_r; the result is the two lanes read
ppc_common_r(offset, mem_mask) ==
    /\ halt = "run"
    /\ maincpu_reset = CLEAR_LINE
    /\ pjc_result' = [w48 |-> IF mem_mask.bits_48_63 THEN ShareWord(offset * 2) ELSE 0,
                      w16 |-> IF mem_mask.bits_16_31 THEN ShareWord(offset * 2 + 1) ELSE 0]
    /\ UNCHANGED <<m_io_share_ram, int6, irq0, int1, int2, maincpu_reset, soundcpu_reset,
                   m_dsp_ram, m_dsp_rom_address>>
    /\ UNCHANGED pjcPeers

\* taitopjc_state::ppc_common_w
ppc_common_w(offset, data, mem_mask) ==
    LET address == offset * 2
        ram1 == IF mem_mask.bits_48_63
                THEN ShareStore(m_io_share_ram, address, data.w48) ELSE m_io_share_ram
        ram2 == IF mem_mask.bits_16_31
                THEN ShareStore(ram1, address + 1, data.w16) ELSE ram1
    IN
    /\ halt = "run"
    /\ maincpu_reset = CLEAR_LINE
    /\ m_io_share_ram' = ram2
    /\ IF offset = 2047 /\ mem_mask.bits_48_63
       THEN int6' = ASSERT_LINE /\ irq0' = CLEAR_LINE
       ELSE UNCHANGED <<int6, irq0>>
    /\ pjc_result' = NoPjcRead
    /\ UNCHANGED <<int1, int2, maincpu_reset, soundcpu_reset, m_dsp_ram, m_dsp_rom_address>>
    /\ UNCHANGED pjcPeers

\* taitopjc_state::tlcs_common_r
tlcs_common_r(offset) ==
    /\ halt = "run"
    /\ pjc_result' = [w48 |-> 0,
                      w16 |-> IF offset % 2 = 1 THEN ShareWord(offset \div 2) \div 256
                              ELSE ShareWord(offset \div 2) % 256]
    /\ UNCHANGED <<m_io_share_ram, int6, irq0, int1, int2, maincpu_reset, soundcpu_reset,
                   m_dsp_ram, m_dsp_rom_address>>
    /\ UNCHANGED pjcPeers

\* tlcs_common_w as it would be if a write to 0x1ffd raised IRQ0 whatever the
\* command word holds.
tlcs_common_w_irq_always(offset, data) ==
    LET word == ShareWord(offset \div 2)
        stored == IF offset % 2 = 1 THEN (word % 256) + 256 * data
                  ELSE (word \div 256) * 256 + data
        share == ShareStore(m_io_share_ram, offset \div 2, stored)
        cmd == share[4094]
    IN
    /\ halt = "run"
    /\ m_io_share_ram' = share
    /\ int6' = IF offset = 8191 THEN CLEAR_LINE ELSE int6
    /\ int1' = IF offset = 8189 /\ cmd = 53248 THEN CLEAR_LINE ELSE int1
    /\ int2' = IF offset = 8189 /\ cmd = 28672 THEN CLEAR_LINE ELSE int2
    /\ irq0' = IF offset = 8189 THEN ASSERT_LINE ELSE irq0
    /\ pjc_result' = NoPjcRead
    /\ UNCHANGED <<maincpu_reset, soundcpu_reset, m_dsp_ram, m_dsp_rom_address>>
    /\ UNCHANGED pjcPeers

\* taitopjc_state::tlcs_common_w
tlcs_common_w(offset, data) ==
    LET word == ShareWord(offset \div 2)
        stored == IF offset % 2 = 1 THEN (word % 256) + 256 * data
                  ELSE (word \div 256) * 256 + data
        share == ShareStore(m_io_share_ram, offset \div 2, stored)
        cmd == share[4094]
    IN
    /\ halt = "run"
    /\ m_io_share_ram' = share
    /\ int6' = IF offset = 8191 THEN CLEAR_LINE ELSE int6
    /\ int1' = IF offset = 8189 /\ cmd = 53248 THEN CLEAR_LINE ELSE int1
    /\ int2' = IF offset = 8189 /\ cmd = 28672 THEN CLEAR_LINE ELSE int2
    /\ irq0' = IF offset = 8189 /\ cmd # 0 THEN ASSERT_LINE ELSE irq0
    /\ pjc_result' = NoPjcRead
    /\ UNCHANGED <<maincpu_reset, soundcpu_reset, m_dsp_ram, m_dsp_rom_address>>
    /\ UNCHANGED pjcPeers

\* taitopjc_state::tlcs_unk_w
tlcs_unk_w(offset, data) ==
    /\ halt = "run"
    /\ maincpu_reset' = IF offset = 6
                        THEN (IF BitAnd(data, 4) # 0 THEN ASSERT_LINE ELSE CLEAR_LINE)
                        ELSE maincpu_reset
    /\ pjc_result' = NoPjcRead
    /\ UNCHANGED <<m_io_share_ram, int6, irq0, int1, int2, soundcpu_reset, m_dsp_ram,
                   m_dsp_rom_address>>
    /\ UNCHANGED pjcPeers

\* taitopjc_state::tms_dspshare_w
tms_dspshare_w(offset, data) ==
    /\ halt = "run"
    /\ int2' = IF offset = 4092 THEN ASSERT_LINE ELSE int2
    /\ m_dsp_ram' = [m_dsp_ram EXCEPT ![offset] = data]
    /\ pjc_result' = NoPjcRead
    /\ UNCHANGED <<m_io_share_ram, int6, irq0, int1, maincpu_reset, soundcpu_reset,
                   m_dsp_rom_address>>
    /\ UNCHANGED pjcPeers

\* taitopjc_state::taitopjc_vbi
taitopjc_vbi ==
    /\ halt = "run"
    /\ int1 = CLEAR_LINE
    /\ int1' = ASSERT_LINE
    /\ pjc_result' = NoPjcRead
    /\ UNCHANGED <<m_io_share_ram, int6, irq0, int2, maincpu_reset, soundcpu_reset,
                   m_dsp_ram, m_dsp_rom_address>>
    /\ UNCHANGED pjcPeers

\* taitopjc_state::dsp_rom_r.  With the address at or past the end of the
\* region a build with assertions stops at the assert; a build without them
\* reads past the region: some word, or an invalid access.
dsp_rom_r ==
    /\ halt = "run"
    /\ \E w \in RomAddressWords : m_dsp_rom_address.lo - w \in 0 .. MaxReads - 1
    /\ m_dsp_rom_address.lo = 65535 => m_dsp_rom_address.hi \in RomAddressWords
    /\ IF InPolyRom(m_dsp_rom_address)
       THEN /\ pjc_result' = [w48 |-> 0, w16 |-> PolyWord(m_dsp_rom_address)]
            /\ m_dsp_rom_address' = Increment32(m_dsp_rom_address)
            /\ UNCHANGED <<halt, msg>>
       ELSE \/ /\ halt' = "fatal"
               /\ msg' = "assert(m_dsp_rom_address < 0x800000)"
               /\ pjc_result' = NoPjcRead
               /\ UNCHANGED m_dsp_rom_address
            \/ /\ \E g \in Garbage : pjc_result' = [w48 |-> 0, w16 |-> g]
               /\ m_dsp_rom_address' = Increment32(m_dsp_rom_address)
               /\ UNCHANGED <<halt, msg>>
            \/ /\ halt' = "segv"
               /\ msg' = "dsp_rom_r"
               /\ pjc_result' = NoPjcRead
               /\ UNCHANGED m_dsp_rom_address
    /\ UNCHANGED <<m_io_share_ram, int6, irq0, int1, int2, maincpu_reset, soundcpu_reset,
                   m_dsp_ram>>
    /\ UNCHANGED pjcOthers

\* taitopjc_state::dsp_roml_w
dsp_roml_w(data) ==
    /\ halt = "run"
    /\ m_dsp_rom_address' = U32(m_dsp_rom_address.hi, data)
    /\ pjc_result' = NoPjcRead
    /\ UNCHANGED <<m_io_share_ram, int6, irq0, int1, int2, maincpu_reset, soundcpu_reset,
                   m_dsp_ram>>
    /\ UNCHANGED pjcPeers

\* taitopjc_state::dsp_romh_w
dsp_romh_w(data) ==
    /\ halt = "run"
    /\ m_dsp_rom_address' = U32(data, m_dsp_rom_address.lo)
    /\ pjc_result' = NoPjcRead
    /\ UNCHANGED <<m_io_share_ram, int6, irq0, int1, int2, maincpu_reset, soundcpu_reset,
                   m_dsp_ram>>
    /\ UNCHANGED pjcPeers

\* taitopjc_state::machine_reset
pjc_machine_reset ==
    /\ halt = "run"
    /\ soundcpu_reset' = ASSERT_LINE
    /\ maincpu_reset' = ASSERT_LINE
    /\ m_dsp_rom_address' = U32(0, 0)
    /\ pjc_result' = NoPjcRead
    /\ UNCHANGED <<m_io_share_ram, int6, irq0, int1, int2, m_dsp_ram>>
    /\ UNCHANGED pjcPeers

PpcRead == \E offset \in PpcOffsets, mem_mask \in PpcMasks : ppc_common_r(offset, mem_mask)
PpcWrite ==
    \E offset \in PpcOffsets, data \in PpcData, mem_mask \in PpcMasks :
        ppc_common_w(offset, data, mem_mask)
TlcsRead == \E offset \in TlcsOffsets : tlcs_common_r(offset)
TlcsWrite == \E offset \in TlcsOffsets, data \in TlcsData : tlcs_common_w(offset, data)
TlcsUnkWrite == \E offset \in UnkOffsets, data \in UnkData : tlcs_unk_w(offset, data)
DspShareWrite ==
    \E offset \in DspShareOffsets, data \in DspShareData : tms_dspshare_w(offset, data)
Vbi == taitopjc_vbi
DspRomRead == dsp_rom_r
DspRomLow == \E data \in RomAddressWords : dsp_roml_w(data)
DspRomHigh == \E data \in RomAddressWords : dsp_romh_w(data)
PjcReset == pjc_machine_reset

(***************************************************************************)
(* Initial states.                                                         *)
(***************************************************************************)
\* vme_device::vme_device: m_allocspaces(true); m_prgspace and m_prgwidth are
\* not set by the constructor and hold whatever the storage held.
BusConstructed ==
    /\ m_allocspaces = TRUE
    /\ busState = "constructed"
    /\ spaces = [s \in Spaces |-> [r \in Ranges |-> NoHandler]]
    /\ halt = "run"
    /\ msg = ""
    /\ m_device_list = <<>>

\* vme_slot_device::vme_slot_device and device_vme_card_interface's constructor.
SlotsConstructed ==
    /\ m_slot_nbr = [k \in Slots |-> k]
    /\ card_m_vme = [c \in Cards |-> "null"]
    /\ card_m_slot = [c \in Cards |-> 0]
    /\ resolved = {}
    /\ post_started = {}
    /\ read_result = NoRead

\* apf_cart_slot_device::apf_cart_slot_device: m_type(APF_STD), m_cart(nullptr);
\* device_apf_cart_interface's constructor: m_rom(nullptr), m_rom_size(0).
CartConstructed ==
    /\ m_cart = "null"
    /\ m_type = APF_STD
    /\ m_rom = nullptr
    /\ m_rom_size = 0
    /\ rom = [o \in RomOffsets |-> NoByte]
    /\ m_ram = 0
    /\ ram = [o \in RamOffsets |-> NoByte]
    /\ regions = 0
    /\ load_result = "none"
    /\ apf_result = NoRead
    /\ slot_string = "none"

\* msx_cart_easispeech_device's constructor: nothing installed, nothing returned.
EasiConstructed ==
    /\ page = NoInstalls
    /\ es_error = "none"
    /\ es_message = ""
    /\ ald = NoByte
    /\ speech_result = NoRead

\* apexc_cylinder_image_device's constructor: no image is open and nothing has
\* been written; the constructor does not set m_writable. The RAM starts clear.
CylConstructed ==
    /\ cyl_open = FALSE
    /\ cyl_file = [readonly |-> TRUE, words |-> [i \in CylOffsets |-> NoWord]]
    /\ maincpu_ram = [i \in CylOffsets |-> ZeroWord]
    /\ fwrite_len = 0

\* mtx_state after machine_start and machine_reset: the memory map switched
\* to 0, no extension ROM, nothing written to either address space.
MtxConstructed ==
    /\ bank = bankswitch(UnswitchedMap, 0)
    /\ program_mem = [a \in MtxAddrs |-> NoByte]
    /\ maincpu_pc = 0
    /\ extrom = NoExtrom
    /\ c64_mem = [a \in CbmAddrs |-> NoByte]
    /\ img_result = "none"
    /\ max_index = NoRead
    /\ data_length = NoRead

\* x68k_hdc_image_device's constructor: the members hold nothing yet, the
\* timer is not allocated; the image, if any, is one made by call_create.
HdcConstructed ==
    /\ hdc_started = FALSE
    /\ m_phase = "unset"
    /\ m_status = 0
    /\ m_status_port = 0
    /\ m_command = [i \in 0..9 |-> 0]
    /\ m_sense = [i \in SenseIndexes |-> 0]
    /\ m_command_byte_count = 0
    /\ m_command_byte_total = 0
    /\ m_current_command = 0
    /\ m_transfer_byte_count = 0
    /\ m_transfer_byte_total = 0
    /\ m_req_timer = "off"
    /\ hd_pos = 0
    /\ hd_data = [p \in HdOffsets |-> 0]
    /\ hdc_result = NoRead

\* taitopjc_state's members as declared (m_io_share_ram{}, m_dsp_ram{},
\* m_dsp_rom_address = 0), every input line clear.
PjcConstructed ==
    /\ m_io_share_ram = [a \in ShareWords |-> 0]
    /\ int6 = CLEAR_LINE
    /\ int1 = CLEAR_LINE
    /\ int2 = CLEAR_LINE
    /\ irq0 = CLEAR_LINE
    /\ maincpu_reset = CLEAR_LINE
    /\ soundcpu_reset = CLEAR_LINE
    /\ m_dsp_ram = [a \in DspShareOffsets |-> 0]
    /\ m_dsp_rom_address = U32(0, 0)
    /\ pjc_result = NoPjcRead

\* Each of these devices as constructed and never operated.
EasiIdle == EasiConstructed /\ cart_rom_region = NoRegion
CylIdle  == CylConstructed /\ m_writable = FALSE /\ lsb_first = TRUE
MtxIdle  == driver = "mtx" /\ mtx_ram_size = 65536 /\ MtxConstructed
HdcIdle  == HdcConstructed /\ hd_exists = FALSE
PjcIdle  == PjcConstructed

\* The devices of the other drivers, as constructed and never operated.
PeersConstructed ==
    /\ EasiIdle
    /\ CylIdle
    /\ MtxIdle
    /\ HdcIdle
    /\ PjcIdle

Init ==
    /\ BusConstructed
    /\ SlotsConstructed
    /\ CartConstructed
    /\ PeersConstructed
    /\ apf_card = "none"
    /\ cpu \in {NoCpu} \cup CpuWidths
    /\ m_prgspace \in {p \in {BadPtr, OwnSpace, CpuSpace} : p = CpuSpace => cpu # NoCpu}
    /\ m_prgwidth \in UnsetWidths
    /\ slot_card = [k \in Slots |-> "vmecard"]

Next ==
    \/ use_owner_spaces
    \/ device_start
    \/ device_reset
    \/ InstallD8
    \/ InstallD8sm
    \/ InstallD8smo
    \/ InstallD16
    \/ InstallD32

Spec == Init /\ [][Next]_vars

\* Every slot configuration, with the bus delegable to a 16-bit host CPU.
InitSlots ==
    /\ BusConstructed
    /\ SlotsConstructed
    /\ CartConstructed
    /\ PeersConstructed
    /\ apf_card = "none"
    /\ cpu = 16
    /\ m_prgspace = BadPtr
    /\ m_prgwidth = 0
    /\ slot_card \in [Slots -> SlotOptions]

NextSlots ==
    \/ ResolveSlot
    \/ PostStartCard
    \/ SlotRead
    \/ SlotWrite
    \/ use_owner_spaces
    \/ device_start
    \/ device_reset
    \/ InstallD8
    \/ InstallD8sm
    \/ InstallD8smo
    \/ InstallD16
    \/ InstallD32

SpecSlots == InitSlots /\ [][NextSlots]_vars

\* The APF slot, empty or holding a cartridge; the VME side stays as constructed.
InitApf ==
    /\ BusConstructed
    /\ SlotsConstructed
    /\ CartConstructed
    /\ PeersConstructed
    /\ cpu = 16
    /\ m_prgspace = BadPtr
    /\ m_prgwidth = 0
    /\ slot_card = [k \in Slots |-> "none"]
    /\ apf_card \in {"none", "cart"}

NextApf ==
    \/ ApfStart
    \/ LoadImage
    \/ DefaultCard
    \/ ReadRom
    \/ ExtraRom
    \/ ReadRam
    \/ WriteRam

SpecApf == InitApf /\ [][NextApf]_vars

\* The APF slot loaded with raw image files only.
LoadRaw == \E img \in RawImages : call_load(img)

NextRaw ==
    \/ ApfStart
    \/ LoadRaw
    \/ ReadRom
    \/ ExtraRom
    \/ ReadRam
    \/ WriteRam

SpecRaw == InitApf /\ [][NextRaw]_vars

\* Every configuration of the VME slots and of the APF slot, with no order
\* imposed on resolution, start and access.
InitEarly ==
    /\ BusConstructed
    /\ SlotsConstructed
    /\ CartConstructed
    /\ PeersConstructed
    /\ cpu = 16
    /\ m_prgspace = BadPtr
    /\ m_prgwidth = 0
    /\ slot_card \in [Slots -> SlotOptions]
    /\ apf_card \in {"none", "cart"}

NextEarly ==
    \/ Resolve
    \/ SlotRead8
    \/ SlotWrite8
    \/ CardRead8
    \/ CardWrite8
    \/ ApfStart
    \/ ReadRom
    \/ ExtraRom
    \/ ReadRam
    \/ WriteRam

SpecEarly == InitEarly /\ [][NextEarly]_vars

\* The VME bus and the APF slot as constructed and never operated.
VmeApfIdle ==
    /\ BusConstructed
    /\ SlotsConstructed
    /\ CartConstructed
    /\ cpu = 16
    /\ m_prgspace = BadPtr
    /\ m_prgwidth = 0
    /\ slot_card = [k \in Slots |-> "none"]
    /\ apf_card = "none"

\* The Easi-Speech cartridge, built with or without a 'rom' region.
InitEasi ==
    /\ VmeApfIdle
    /\ CylIdle
    /\ MtxIdle
    /\ HdcIdle
    /\ PjcIdle
    /\ EasiConstructed
    /\ cart_rom_region \in RomRegions

NextEasi ==
    \/ InitializeCartridge
    \/ ReadSpeech
    \/ WriteSpeech

SpecEasi == InitEasi /\ [][NextEasi]_vars

\* The APEXC cylinder on a host of either endianness, m_writable holding
\* whatever its storage held.
InitCyl ==
    /\ VmeApfIdle
    /\ EasiIdle
    /\ MtxIdle
    /\ HdcIdle
    /\ PjcIdle
    /\ CylConstructed
    /\ m_writable \in BOOLEAN
    /\ lsb_first \in BOOLEAN

NextCyl ==
    \/ MountCylinder
    \/ UnmountCylinder
    \/ StoreWord

SpecCyl == InitCyl /\ [][NextCyl]_vars

\* An MTX of either RAM size, or a machine that loads with general_cbm_loadsnap.
InitLoaders ==
    /\ VmeApfIdle
    /\ EasiIdle
    /\ CylIdle
    /\ HdcIdle
    /\ PjcIdle
    /\ driver \in {"mtx", "cbm"}
    /\ mtx_ram_size \in MtxRamSizes
    /\ MtxConstructed

NextLoaders ==
    \/ BankswitchW
    \/ MachineReset
    \/ ExtromLoad
    \/ SnapshotLoad
    \/ QuickLoad
    \/ CbmLoad

SpecLoaders == InitLoaders /\ [][NextLoaders]_vars

\* The SASI controller, with and without a hard disk image.
InitSasi ==
    /\ VmeApfIdle
    /\ EasiIdle
    /\ CylIdle
    /\ MtxIdle
    /\ PjcIdle
    /\ HdcConstructed
    /\ hd_exists \in BOOLEAN

NextSasi ==
    \/ HdcStart
    \/ HdcWrite
    \/ HdcRead
    \/ ReqTimer

SpecSasi == InitSasi /\ [][NextSasi]_vars

\* The Power-JC mailbox: the PowerPC, once released from reset, and the I/O
\* CPU access the shared RAM in any order; the vertical blank and the DSP
\* raise the I/O CPU's other interrupts.
InitPjc ==
    /\ VmeApfIdle
    /\ EasiIdle
    /\ CylIdle
    /\ MtxIdle
    /\ HdcIdle
    /\ PjcConstructed

NextMailbox ==
    \/ PjcReset
    \/ TlcsUnkWrite
    \/ PpcRead
    \/ PpcWrite
    \/ TlcsRead
    \/ TlcsWrite
    \/ DspShareWrite
    \/ Vbi

SpecMailbox == InitPjc /\ [][NextMailbox]_vars

\* The DSP's polygon ROM port.
NextDspRom ==
    \/ PjcReset
    \/ DspRomLow
    \/ DspRomHigh
    \/ DspRomRead

SpecDspRom == InitPjc /\ [][NextDspRom]_vars

\* The host's access to the data port that matches the current phase: a write
\* in COMMAND and WRITE, a read in READ, STATUS and MESSAGE.
HostDataAccess ==
    \/ /\ m_phase = "COMMAND"
       /\ \E data \in NextCommandBytes : hdc_w(0, data)
    \/ /\ m_phase = "WRITE"
       /\ \E data \in HostData : hdc_w(0, data)
    \/ /\ m_phase \in {"READ", "STATUS", "MESSAGE"}
       /\ hdc_r(0)

\* The SASI controller with a host that does not stop in the middle of a
\* command: it keeps making the data-port access the phase asks for, among
\* its other accesses.
SpecSasiLive == InitSasi /\ [][NextSasi]_vars /\ WF_vars(HostDataAccess)

(***************************************************************************)
(* Properties of install_device.                                           *)
(***************************************************************************)
SupportedModifiers == {A16_SC, A24_SC, A32_SC}
SupportedWidths    == {16, 24, 32}

ModifierMessages ==
    { "VME D8: Non supported Address modifier",
      "VME D16: Non supported Address modifier",
      "VME D32: Non supported Address modifier" }
WidthMessages ==
    { "VME D8: Bus width not supported",
      "VME D16: Bus width not supported",
      "VME D32: Bus width not supported" }

SomeHandlerInstalled ==
    \E s \in Spaces, r \in Ranges : spaces[s][r] # NoHandler

\* The bus has been started and m_prgspace designates a live address space.
SpaceResolved == busState = "started" /\ ValidSpace(m_prgspace)

\* C1: for each of the five install_device overloads and each address modifier
\* other than A16_SC, A24_SC and A32_SC, the call ends in a fatal error and the
\* handlers installed in every address space are those installed before it.
C1_UnsupportedModifierFatal ==
    [][ \A d \in Delegates, amod \in vme_amod_t \ SupportedModifiers, r \in Requests :
            install_device(d, amod, r.start, r.end, r.mask)
                => /\ halt' = "fatal"
                   /\ msg' \in ModifierMessages
                   /\ spaces' = spaces ]_vars

\* C1 witness: a call with an unsupported modifier has ended fatally on a bus
\* that already holds a handler.
C1_Witness ==
    /\ halt = "fatal"
    /\ msg \in ModifierMessages
    /\ SomeHandlerInstalled

\* What the claim says of the mask: m & 0xFFFF at width 16, m & 0xFFFFFF at
\* width 24, m itself at width 32.
MaskAtWidth(m, width) ==
    CASE width = 16 -> U32(0, m.lo)
      [] width = 24 -> U32(m.hi % 256, m.lo)
      [] width = 32 -> m

\* C2: on a started bus with a supported modifier and a bus width of 16, 24 or 32,
\* every overload succeeds and changes the authoritative space at [start, end]
\* alone, to the handler pair given with the mask cut to the width.
C2_InstallMasksToWidth ==
    [][ \A d \in Delegates, amod \in SupportedModifiers, r \in Requests :
            ( /\ SpaceResolved
              /\ m_prgwidth \in SupportedWidths
              /\ install_device(d, amod, r.start, r.end, r.mask) )
                => /\ halt' = "run"
                   /\ spaces' = [spaces EXCEPT ![m_prgspace][<<r.start, r.end>>] =
                                     [delegate |-> d,
                                      mask |-> MaskAtWidth(r.mask, m_prgwidth)]] ]_vars

\* C2 witness: on a bus of width 16 the mask 0xff00ff00 was installed as 0xff00
\* with the D32 overload and the mask 0x12345678 as 0x5678 with the D8 smo one.
C2_Witness ==
    /\ SpaceResolved
    /\ m_prgwidth = 16
    /\ spaces[m_prgspace][<<16711680, 16711935>>] =
           [delegate |-> read32, mask |-> U32(0, 65280)]
    /\ spaces[m_prgspace][<<0, 65535>>] =
           [delegate |-> read8smo, mask |-> U32(0, 22136)]

\* C3: with a supported modifier and a bus width other than 16, 24 and 32, the
\* call ends in a fatal error and installs no handler.
C3_UnsupportedWidthFatal ==
    [][ \A d \in Delegates, amod \in SupportedModifiers, r \in Requests :
            ( /\ m_prgwidth \notin SupportedWidths
              /\ install_device(d, amod, r.start, r.end, r.mask) )
                => /\ halt' = "fatal"
                   /\ msg' \in WidthMessages
                   /\ spaces' = spaces ]_vars

\* C3 witness: a bus delegated to an 8-bit host CPU has been started and an
\* install_device call on it has ended with the bus-width error.
C3_Witness ==
    /\ busState = "started"
    /\ m_prgspace = CpuSpace
    /\ m_prgwidth = 8
    /\ halt = "fatal"
    /\ msg \in WidthMessages

(***************************************************************************)
(* Properties of the bus lifecycle.                                        *)
(***************************************************************************)
OtherSpaces(p) == Spaces \ {p}

\* C4 as claimed: install_device calls complete before the bus is started, and
\* the handlers installed before device_start are found in the address space
\* that is authoritative after it (so no other space holds a handler).
C4_InstallBeforeStart ==
    /\ ~(busState = "constructed" /\ halt = "segv" /\ msg = "install_device")
    /\ busState = "started" =>
           \A s \in OtherSpaces(m_prgspace), r \in Ranges : spaces[s][r] = NoHandler

\* C4 as amended: the lifecycle is Constructed -> Started -> Configured.  Once
\* started the bus stays started, and every install_device call made on a started
\* bus whose space is resolved (supported modifier and width) completes and
\* leaves its handler pair at [start, end] of the space device_start resolved.
C4_InstallAfterStart ==
    [][ /\ busState = "started" => busState' = "started"
        /\ \A d \in Delegates, amod \in SupportedModifiers, r \in Requests :
               ( /\ SpaceResolved
                 /\ m_prgwidth \in SupportedWidths
                 /\ install_device(d, amod, r.start, r.end, r.mask) )
                   => /\ halt' = "run"
                      /\ m_prgspace' = m_prgspace
                      /\ spaces'[m_prgspace'][<<r.start, r.end>>].delegate = d ]_vars

\* C4 witness: a bus delegated to the host CPU was started and then configured:
\* the CPU's space holds handlers on both ranges and the bus's own space none.
C4_Witness ==
    /\ SpaceResolved
    /\ m_prgspace = CpuSpace
    /\ \A r \in Ranges : spaces[CpuSpace][r] # NoHandler
    /\ \A r \in Ranges : spaces[OwnSpace][r] = NoHandler

\* C5: device_start resolves one authoritative space with its width: the bus's
\* own 32-bit program space if use_owner_spaces was not called before, otherwise
\* the program space and data width of the host CPU with the configured tag.
\* From then on the space and the width are fixed, and no operation changes a
\* handler of the other space.
C5_OneAuthoritativeSpace ==
    [][ /\ (busState = "constructed" /\ busState' = "started") =>
               IF m_allocspaces
               THEN m_prgspace' = OwnSpace /\ m_prgwidth' = 32
               ELSE cpu # NoCpu => (m_prgspace' = CpuSpace /\ m_prgwidth' = cpu)
        /\ SpaceResolved =>
               /\ m_prgspace' = m_prgspace
               /\ m_prgwidth' = m_prgwidth
               /\ \A s \in OtherSpaces(m_prgspace) : spaces'[s] = spaces[s] ]_vars

\* C5 witness: use_owner_spaces, then device_start with a 24-bit host CPU, then
\* an install_device: the handler is in the CPU's space.
C5_Witness ==
    /\ busState = "started"
    /\ ~m_allocspaces
    /\ m_prgspace = CpuSpace
    /\ m_prgwidth = 24
    /\ cpu = 24
    /\ spaces[CpuSpace][<<0, 65535>>] = [delegate |-> read16, mask |-> U32(52, 22136)]
    /\ halt = "run"

\* C6 as claimed: device_start on a bus for which use_owner_spaces was called and
\* whose owner has no CPU with the configured tag ends in a fatal error, and the
\* bus is not started.
C6_MissingCpuFatal ==
    [][ ( /\ ~m_allocspaces
          /\ cpu = NoCpu
          /\ device_start )
            => /\ halt' = "fatal"
               /\ busState' = "constructed" ]_vars

\* C7: on a started bus use_owner_spaces changes neither the authoritative space
\* nor the width nor a handler, and whatever is called after it (install_device,
\* device_reset) the space and the width stay those device_start resolved.
C7_OwnerSpacesAfterStart ==
    [][ /\ (busState = "started" /\ use_owner_spaces) =>
               /\ busState' = "started"
               /\ m_prgspace' = m_prgspace
               /\ m_prgwidth' = m_prgwidth
               /\ spaces' = spaces
               /\ halt' = halt
        /\ busState = "started" =>
               /\ m_prgspace' = m_prgspace
               /\ m_prgwidth' = m_prgwidth ]_vars

\* C7 witness: the bus was started on its own space, use_owner_spaces was called
\* afterwards, and handlers on both ranges sit in the bus's own 32-bit space.
C7_Witness ==
    /\ busState = "started"
    /\ ~m_allocspaces
    /\ m_prgspace = OwnSpace
    /\ m_prgwidth = 32
    /\ cpu = 16
    /\ \A r \in Ranges : spaces[OwnSpace][r] # NoHandler
    /\ \A r \in Ranges : spaces[CpuSpace][r] = NoHandler
    /\ halt = "run"

(***************************************************************************)
(* Properties of card registration and slot resolution.                    *)
(***************************************************************************)
IsPrefix(a, b) == Len(a) <= Len(b) /\ SubSeq(b, 1, Len(a)) = a

BusOperation ==
    \/ use_owner_spaces
    \/ device_start
    \/ device_reset
    \/ InstallD8 \/ InstallD8sm \/ InstallD8smo \/ InstallD16 \/ InstallD32

Registered == { m_device_list[i] : i \in 1 .. Len(m_device_list) }

\* C8: each add_vme_card call puts its card at the end of the bus's card list,
\* so the list is the cards in call order whatever their slot numbers; no step
\* removes, reorders or replaces an entry, and the bus operations install_device,
\* device_start, device_reset and use_owner_spaces leave the list as it is.
C8_CardListInCallOrder ==
    [][ /\ IsPrefix(m_device_list, m_device_list')
        /\ \A c \in Cards :
               (card_m_vme[c] # "null" /\ interface_post_start(c))
                   => m_device_list' = m_device_list \o <<c>>
        /\ BusOperation => m_device_list' = m_device_list ]_vars

\* C8 witness: the card of slot 2 registered before the card of slot 1, and the
\* bus was then started and configured with both cards still listed in that order.
C8_Witness ==
    /\ m_device_list = <<2, 1>>
    /\ card_m_slot[2] = 2 /\ card_m_slot[1] = 1
    /\ busState = "started"
    /\ ~m_allocspaces
    /\ SomeHandlerInstalled

\* C9: once a slot is resolved, the card it holds (a device implementing the VME
\* card interface) refers to the slot's bus and carries the slot's number;
\* resolving a slot that is empty or holds another kind of device sets nothing,
\* and so does not resolving: those cards' fields are as constructed.
C9_ResolveSetsBusAndSlot ==
    /\ \A k \in Slots :
           IF k \in resolved /\ slot_card[k] = "vmecard"
           THEN card_m_vme[k] = "vme" /\ card_m_slot[k] = m_slot_nbr[k]
           ELSE card_m_vme[k] = "null" /\ card_m_slot[k] = 0
    /\ card_m_vme[0] = "null" /\ card_m_slot[0] = 0

\* C9 witness: slot 2 holds a VME card and was resolved (the card has the bus and
\* slot number 2); slot 1 holds a device of another kind and was resolved too.
C9_Witness ==
    /\ resolved = Slots
    /\ slot_card[2] = "vmecard" /\ card_m_vme[2] = "vme" /\ card_m_slot[2] = 2
    /\ slot_card[1] = "other" /\ card_m_vme[1] = "null"

\* C10: a card is in the bus's list exactly once if its post-start hook has run
\* and its bus reference was set by its slot's resolution, and not at all
\* otherwise; a card that sits in no resolved slot is started without being
\* registered and without a failure.  Every slot is resolved before the first
\* post-start hook and before the first bus access.
C10_RegisteredOnceAfterResolve ==
    /\ \A c \in Cards :
           Cardinality({i \in 1 .. Len(m_device_list) : m_device_list[i] = c})
               = IF c \in post_started /\ card_m_vme[c] = "vme" THEN 1 ELSE 0
    /\ \A c \in Registered : CardExists(c) /\ c \in resolved
    /\ (post_started # {} \/ read_result # NoRead) => resolved = Slots
    /\ ~(halt = "segv" /\ msg = "interface_post_start")

\* C10 witness: every device is started; the card of slot 1 is registered, the
\* card in no slot is not, and the bus has been read.
C10_Witness ==
    /\ post_started = {0, 1}
    /\ slot_card[2] = "none"
    /\ m_device_list = <<1>>
    /\ card_m_vme[0] = "null"
    /\ read_result # NoRead
    /\ halt = "run"

(***************************************************************************)
(* Properties of the byte accesses of the VME slot and card.               *)
(***************************************************************************)
\* C11: vme_slot_device::read8 and write8 forward the access to the installed
\* card when there is one (the step is the step of the card's read8, of the
\* card's write8); with no card, read8 returns the open-bus value 0xFF and
\* write8 changes no state.
C11_SlotForwardsOrOpenBus ==
    [][ /\ \A k \in Slots, offset \in Offsets :
              vme_slot_read8(k, offset) =>
                  IF ImplementsCardInterface(k)
                  THEN card_read8(k, offset)
                  ELSE read_result' = 255
        /\ \A k \in Slots, offset \in Offsets, data \in {0, 255} :
              vme_slot_write8(k, offset, data) =>
                  IF ImplementsCardInterface(k)
                  THEN card_write8(k, offset, data)
                  ELSE UNCHANGED vars
      ]_vars

\* C12: the byte read a card inherits (device_vme_card_interface::read8, not
\* overridden) returns the all-bits-set value 0xFF at every offset, and the
\* inherited write8 changes no state and does not fail.
C12_CardDefaultOpenBus ==
    [][ /\ \A c \in Cards, offset \in Offsets :
              card_read8(c, offset) => read_result' = 255
        /\ \A c \in Cards, offset \in Offsets, data \in {0, 255} :
              card_write8(c, offset, data) => UNCHANGED vars /\ halt' = "run"
      ]_vars

(***************************************************************************)
(* Properties of the APF cartridge slot.                                   *)
(***************************************************************************)
\* C13: on an APF slot with no cartridge, read_rom, extra_rom and read_ram
\* return 0xFF at every offset, write_ram changes no state whatever the offset
\* and data, and none of the four fails.
C13_EmptySlotOpenBus ==
    [][ apf_card = "none" =>
          /\ \A offset \in ApfOffsets :
                (read_rom(offset) \/ extra_rom(offset) \/ read_ram(offset)) =>
                    apf_result' = 255 /\ halt' = "run" /\ UNCHANGED cartState
          /\ \A offset \in ApfOffsets, data \in ApfData :
                write_ram(offset, data) =>
                    UNCHANGED <<cartState, vmeVars>> /\ halt' = "run"
      ]_vars

\* C13 witness: the slot is empty and has been read; the read
\* returned 0xFF.
C13_Witness ==
    /\ apf_card = "none"
    /\ m_cart = "null"
    /\ apf_result = 255
    /\ halt = "run"

(***************************************************************************)
(* Properties of accesses made before resolution.                          *)
(***************************************************************************)
\* The APF slot holds no cartridge, or holds one that device_start has not
\* fetched yet; VME slot k holds no card, or has not been resolved yet.
ApfEmptyOrUnstarted == m_cart = "null"
VmeEmptyOrUnresolved(k) == ~ImplementsCardInterface(k) \/ k \notin resolved

\* C14: a slot accessed before its resolution step (the APF slot before
\* device_start has fetched the cartridge, a VME slot before
\* device_resolve_objects) behaves as an empty slot does, also when a card is
\* configured for it: every read returns the value an empty slot returns (0xFF
\* on the APF slot, 0x00 on a VME slot), a write changes no state, and no
\* access fails.
C14_UnresolvedAsEmpty ==
    [][ /\ ApfEmptyOrUnstarted =>
              /\ \A offset \in ApfOffsets :
                    (read_rom(offset) \/ extra_rom(offset) \/ read_ram(offset)) =>
                        apf_result' = 255 /\ halt' = "run" /\ UNCHANGED cartState
              /\ \A offset \in ApfOffsets, data \in ApfData :
                    write_ram(offset, data) => UNCHANGED cartState /\ halt' = "run"
        /\ \A k \in Slots :
              VmeEmptyOrUnresolved(k) =>
                  /\ \A offset \in Offsets :
                        vme_slot_read8(k, offset) => read_result' = 0 /\ halt' = "run"
                  /\ \A offset \in Offsets, data \in {0, 255} :
                        vme_slot_write8(k, offset, data) =>
                            UNCHANGED vars /\ halt' = "run"
      ]_vars

\* C14 witness: a cartridge is configured but not fetched and the APF slot was
\* read (0xFF); VME slot 1 holds a card, no VME slot is resolved and the VME
\* slot was read (0x00).
C14_Witness ==
    /\ apf_card = "cart" /\ m_cart = "null" /\ apf_result = 255
    /\ slot_card[1] = "vmecard" /\ resolved = {} /\ read_result = 0
    /\ halt = "run"

\* The sizes call_load passes to rom_alloc and to the copy.
LoadSizes == { LengthAsUint32(img.length) : img \in Images }

\* C15: rom_alloc is idempotent: once the ROM exists, a further rom_alloc of
\* any size (the same or another) leaves m_rom, m_rom_size and the ROM's bytes
\* as they are and allocates nothing; and in every step of every run a ROM
\* pointer that is set keeps its value, so it leaves nullptr at most once.
C15_RomAllocOnce ==
    /\ [](m_rom # nullptr =>
             \A size \in LoadSizes :
                 rom_alloc(size) = [m_rom |-> m_rom, m_rom_size |-> m_rom_size,
                                    rom |-> rom, regions |-> regions])
    /\ [][m_rom # nullptr => m_rom' = m_rom /\ regions' = regions]_vars

\* C15 witness: a 0x2000-byte image was loaded and then a 0x1800-byte one, so
\* rom_alloc ran a second time with another size: the ROM is still the first
\* region, still 0x2000 bytes long, and holds the second image's first byte.
C15_Witness ==
    /\ m_rom = 1 /\ regions = 1
    /\ m_rom_size = 8192
    /\ rom[0] = 1
    /\ m_type = APF_SPACEDST
    /\ halt = "run"

\* Whether an image (its file, or its "rom" region) is longer than n bytes, and
\* whether it is exactly n bytes long (n < 2^32).
LongerThan(img, n) == img.length.hi > 0 \/ img.length.lo > n
ExactlyLong(img, n) == img.length.hi = 0 /\ img.length.lo = n

\* C16: call_load on a slot with a cartridge, given an image (raw file or
\* software-list "rom" region) longer than 0x3800 bytes, returns INVALIDLENGTH
\* before any allocation: ROM pointer and size, ROM bytes, RAM and m_type are
\* unchanged; an image of exactly 0x3800 bytes is not rejected.
C16_OversizeRejected ==
    [][ \A img \in Images :
            (m_cart # "null" /\ call_load(img)) =>
                /\ LongerThan(img, 14336) =>
                       /\ load_result' = "INVALIDLENGTH"
                       /\ UNCHANGED <<m_rom, m_rom_size, rom, m_ram, ram, m_type, regions>>
                /\ ExactlyLong(img, 14336) => load_result' # "INVALIDLENGTH"
      ]_vars

\* C17: after every successful call_load of an image of S bytes, 0 <= S <=
\* 0x3800, the cartridge's ROM size is exactly S and the ROM byte at every
\* offset below S is the image's byte at that offset.
C17_RomIsImage ==
    [][ \A img \in Images :
            ( /\ m_cart # "null"
              /\ ~LongerThan(img, 14336)
              /\ call_load(img)
              /\ load_result' = "ok" ) =>
                /\ m_rom_size' = img.length.lo
                /\ \A o \in RomOffsets :
                       o < img.length.lo => rom'[o] = ImageByte(img, o)
      ]_vars

\* C18: for a raw image of an accepted size S (S <= 0x3800), call_load selects
\* the variant by S alone: S = 0x1800 gives APF_SPACEDST and a RAM of exactly
\* 0x400 bytes, S > 0x2000 gives APF_BASIC, every other S gives APF_STD.
C18_RawVariantBySize ==
    [][ \A img \in RawImages :
            ( /\ m_cart # "null"
              /\ ~LongerThan(img, 14336)
              /\ call_load(img)
              /\ load_result' = "ok" ) =>
                LET S == img.length.lo
                IN  IF S = 6144 THEN m_type' = APF_SPACEDST /\ m_ram' = 1024
                    ELSE IF S > 8192 THEN m_type' = APF_BASIC
                    ELSE m_type' = APF_STD
      ]_vars

\* C18 witness: a raw 0x1800-byte image was loaded over a 0x3800-byte one: the
\* slot is APF_SPACEDST and the cartridge has 0x400 bytes of RAM.
C18_Witness ==
    /\ m_cart = "cart"
    /\ m_rom_size = 14336
    /\ rom[0] = 1
    /\ rom[14335] = 3
    /\ m_type = APF_SPACEDST
    /\ m_ram = 1024
    /\ load_result = "ok"

\* The hook get_default_card_software is given for the file of a raw image.
HookOf(img) == [has_file |-> TRUE, length |-> img.length, softslot |-> NoFeature]

\* C19: the query and the load agree: for every raw image size, the option
\* name get_default_card_software returns for a file of that size is the
\* slot_list name of the variant call_load selects for an image of that size.
C19_QueryAgreesWithLoad ==
    [][ \A img \in RawImages :
            ( /\ m_cart # "null"
              /\ call_load(img)
              /\ load_result' = "ok" ) =>
                default_card_software(HookOf(img)) = apf_get_slot(m_type')
      ]_vars

\* C20: get_default_card_software is a pure query: for every hook it leaves
\* m_type, m_cart, the ROM pointer, size and bytes and the RAM as they are and
\* allocates no region, and it does not fail.
C20_DefaultCardIsPure ==
    [][ \A hook \in Hooks :
            get_default_card_software(hook) =>
                /\ UNCHANGED <<m_type, m_cart, m_rom, m_rom_size, rom, m_ram, ram, regions>>
                /\ halt' = "run"
      ]_vars

\* C20 witness: a software-list BASIC cartridge with 0x800 bytes of RAM is
\* loaded and the query was then made for a 0x1800-byte file: it answered
\* "spacedst" and the slot is still APF_BASIC.
C20_Witness ==
    /\ slot_string = "spacedst"
    /\ m_type = APF_BASIC
    /\ m_rom = 1 /\ m_rom_size = 4096
    /\ m_ram = 2048
    /\ halt = "run"

\* The copy of call_load stays inside the ROM: there is no ROM yet, or the
\* image is no longer than the ROM.
CopyFits(img) == m_rom = nullptr \/ LengthAsUint32(img.length) <= m_rom_size

\* C21: a software-list load whose "slot" feature names no variant of the
\* table (not std, basic or spacedst) succeeds and sets the variant to the
\* default APF_STD; a name of the table sets exactly the id paired with it.
C21_SlotFeatureToVariant ==
    [][ \A img \in SoftImages :
            ( /\ m_cart # "null"
              /\ img.slot # NoFeature
              /\ ~LongerThan(img, 14336)
              /\ CopyFits(img)
              /\ call_load(img) ) =>
                /\ load_result' = "ok"
                /\ halt' = "run"
                /\ m_type' = CASE img.slot = "std"      -> APF_STD
                               [] img.slot = "basic"    -> APF_BASIC
                               [] img.slot = "spacedst" -> APF_SPACEDST
                               [] OTHER                 -> APF_STD
      ]_vars

\* C21 witness: a raw 0x1800-byte image made the slot APF_SPACEDST (0x400 bytes
\* of RAM), then a software-list entry whose "slot" feature is "std" or a name
\* outside the table was loaded: the ROM starts with its bytes and the slot is
\* APF_STD.
C21_Witness ==
    /\ m_rom_size = 6144
    /\ m_ram = 1024
    /\ rom[0] = 7
    /\ m_type = APF_STD
    /\ load_result = "ok"

(***************************************************************************)
(* Properties of msx_cart_easispeech_device::initialize_cartridge.         *)
(***************************************************************************)
\* C22: initialize_cartridge returns INTERNAL when the 'rom' region is missing
\* and INVALIDLENGTH when the region is not 0x2000 bytes long, and in both
\* cases no ROM and no handler is installed; only a region of 0x2000 bytes
\* leads to success, with the ROM at 0x4000-0x5fff of page 1 and the speech
\* read and write handlers at 0x8000 of page 2.
C22_EasiSpeechInitialise ==
    [][ initialize_cartridge =>
          /\ cart_rom_region = NoRegion => es_error' = "INTERNAL" /\ page' = NoInstalls
          /\ cart_rom_region \notin {NoRegion, 8192} =>
                 es_error' = "INVALIDLENGTH" /\ page' = NoInstalls
          /\ es_error' = "ok" <=> cart_rom_region = 8192
          /\ cart_rom_region = 8192 =>
                 page' = [NoInstalls EXCEPT ![1] = {InstalledRom(16384, 24575, 8192)},
                                            ![2] = {SpeechRead, SpeechWrite}]
      ]_vars

\* A region of 0x2000 bytes was accepted, and the installed write handler has
\* passed an allophone to the speech chip.
C22_Witness ==
    /\ cart_rom_region = 8192
    /\ es_error = "ok"
    /\ InstalledRom(16384, 24575, 8192) \in page[1]
    /\ ald = 21

(***************************************************************************)
(* Properties of vme_device::device_reset.                                 *)
(***************************************************************************)
\* C23: a reset of the bus device changes nothing structural: the card list,
\* the authoritative address space, the recorded width, the owner-spaces flag
\* and the installed handlers are the same after device_reset as before it,
\* for every reset of a run.
C23_ResetKeepsStructure ==
    [][ device_reset =>
          UNCHANGED <<m_device_list, m_prgspace, m_prgwidth, m_allocspaces, spaces>>
      ]_vars

\* A started bus with cards on its list and a handler installed, on which
\* device_reset can run.
C23_Witness ==
    /\ halt = "run"
    /\ busState = "started"
    /\ Len(m_device_list) = NSlots
    /\ \E s \in Spaces, r \in Ranges : spaces[s][r] # NoHandler
    /\ ENABLED device_reset

(***************************************************************************)
(* Properties of apexc_cylinder_image_device.                              *)
(***************************************************************************)
\* C25: call_unload writes the 0x1000 bytes of RAM to the image exactly when
\* the image was not read-only at the call_load before it; a read-only image
\* is not written: no fwrite is issued and the file keeps its contents.
C25_UnloadWritesIffWritable ==
    [][ cyl_call_unload =>
          /\ fwrite_len' = 4096 <=> ~cyl_file.readonly
          /\ fwrite_len' \in {0, 4096}
          /\ cyl_file.readonly => cyl_file' = cyl_file
          /\ ~cyl_file.readonly =>
                 cyl_file'.words = [i \in CylOffsets |-> big_endianize_int32(maincpu_ram[i])]
      ]_vars

\* A writable image that was 4 bytes long has been unloaded after the CPU
\* stored into the RAM: the file now holds the whole RAM.
C25_Witness ==
    /\ ~cyl_open
    /\ ~cyl_file.readonly
    /\ fwrite_len = 4096
    /\ lsb_first
    /\ cyl_file.words[0] = <<5, 6, 7, 8>>
    /\ cyl_file.words[1023] = <<9, 0, 0, 0>>

(***************************************************************************)
(* Properties of the image loaders.                                        *)
(***************************************************************************)
\* The machine state the loaders act on: memory map, both address spaces,
\* program counter and extension ROM.
machineState == <<bank, program_mem, maincpu_pc, extrom, c64_mem>>

\* C24: a loader that rejects an image returns its typed error before it
\* modifies the machine: on every error return of extrom_load (size over
\* 0x80000), of snapshot_cb and quickload_cb (too short, too long, short read,
\* bad first byte, bad code base or length) and of general_cbm_loadsnap (bad
\* magic, unsupported type, short read), no byte has been written to the
\* address space, no ROM allocated and the bank mapping is unchanged.
C24_RejectBeforeModify ==
    [][ (ExtromLoad \/ SnapshotLoad \/ QuickLoad \/ CbmLoad) =>
            /\ img_result' \in {"ok", "none", "INVALIDLENGTH", "INVALIDIMAGE",
                                "UNSPECIFIED", "UNSUPPORTED"}
            /\ img_result' \notin {"ok", "none"} => UNCHANGED <<machineState, halt, msg>>
      ]_vars

\* A snapshot with a wrong first byte has been rejected on a machine whose
\* memory map had been switched to RAM mode, whose memory an earlier load had
\* written and which holds an extension ROM: all three are as they were.
C24_Witness ==
    /\ img_result = "INVALIDIMAGE"
    /\ max_index = 0
    /\ bank.cbm_mode = 1
    /\ program_mem[16384] # NoByte
    /\ extrom # NoExtrom

(***************************************************************************)
(* Properties of the RAM and of the variant across loads.                  *)
(***************************************************************************)
\* C26: a software-list load allocates the cartridge's RAM exactly when the
\* entry carries a "ram" region, with the size of that region, whatever
\* variant the "slot" feature names; a raw load allocates RAM only for an
\* image of 0x1800 bytes, with the size 0x400. A load that does not allocate
\* leaves the RAM as it was.
C26_RamAllocatedByRegion ==
    [][ \A img \in Images :
            ( /\ m_cart # "null"
              /\ ~LongerThan(img, 14336)
              /\ call_load(img)
              /\ load_result' = "ok" ) =>
                IF img.softlist
                THEN IF img.ram # NoRegion
                     THEN m_ram' = img.ram
                     ELSE UNCHANGED <<m_ram, ram>>
                ELSE IF img.length.lo = 6144
                     THEN m_ram' = 1024
                     ELSE UNCHANGED <<m_ram, ram>>
      ]_vars

\* A software-list entry with a "ram" region of 0x800 bytes and the "basic"
\* slot feature has been loaded: the cartridge has 0x800 bytes of RAM.
C26_Witness ==
    /\ m_cart = "cart"
    /\ rom[0] = 7
    /\ m_type = APF_BASIC
    /\ m_ram = 2048
    /\ ram[1023] # NoByte
    /\ load_result = "ok"

\* The number of bytes call_load copies from the image into the ROM buffer.
BytesCopied(img) ==
    IF ~img.softlist THEN LengthAsUint32(length(img)) ELSE get_software_region_length(img)

\* C27: in any sequence of successful loads on the same cartridge, the bytes
\* each load copies into the ROM buffer are no more than the ROM size
\* recorded at allocation: a larger image loaded after a smaller one does not
\* write past the buffer the first load allocated.
C27_CopyWithinRom ==
    [][ \A img \in Images :
            ( /\ m_cart # "null"
              /\ call_load(img)
              /\ load_result' = "ok" ) =>
                BytesCopied(img) <= m_rom_size'
      ]_vars

\* C28: after any sequence of successful raw loads the cartridge holds 0x400
\* bytes of RAM exactly when the slot's variant is APF_SPACEDST: an image of
\* 0x1800 bytes followed by an image of another size leaves no RAM behind
\* for the std or basic variant.
C28_RamIffSpaceDestroyer ==
    (m_ram = 1024) <=> (m_type = APF_SPACEDST)

\* C29: a software-list load without a "slot" feature leaves m_type as it was
\* before the load (APF_STD on a fresh slot, the variant of the load before
\* otherwise); call_load on a slot without a card returns success, changes
\* neither m_type nor anything else and allocates nothing.
C29_VariantKeptWithoutFeature ==
    [][ \A img \in Images :
            call_load(img) =>
                /\ (m_cart # "null" /\ img.softlist /\ img.slot = NoFeature) =>
                       m_type' = m_type
                /\ m_cart = "null" =>
                       /\ load_result' = "ok"
                       /\ m_type' = APF_STD
                       /\ UNCHANGED <<cartState, halt, msg>>
      ]_vars

\* A software-list entry has been loaded over a raw image of 0x1800 bytes,
\* and the slot is still APF_SPACEDST, now with the entry's 0x800 bytes of RAM.
C29_Witness ==
    /\ m_cart = "cart"
    /\ m_rom_size = 6144
    /\ rom[0] = 7
    /\ m_type = APF_SPACEDST
    /\ m_ram = 2048
    /\ load_result = "ok"

(***************************************************************************)
(* Properties of the SASI controller.                                      *)
(***************************************************************************)
\* Every value the host writes in the model.
WrittenData == HostData \cup UNION { { c[i] : i \in 1..Len(c) } : c \in HostCommands }

\* The phase changes that hdc_w(offset, data) may make, and the ones hdc_r(offset) may.
WriteMoves(offset, data) ==
    \/ /\ m_phase = "BUSFREE" /\ m_phase' = "SELECTION"
       /\ offset = 3 /\ data # 0
    \/ /\ m_phase = "SELECTION" /\ m_phase' = "COMMAND"
       /\ offset = 1 /\ data = 0
    \/ /\ m_phase = "COMMAND" /\ m_phase' \in {"READ", "WRITE", "STATUS"}
       /\ offset = 0
       /\ m_command_byte_count' = m_command_byte_total'
    \/ /\ m_phase = "WRITE" /\ m_phase' = "STATUS"
       /\ offset = 0
       /\ m_transfer_byte_count' >= m_transfer_byte_total'
ReadMoves(offset) ==
    \/ /\ m_phase = "READ" /\ m_phase' = "STATUS"
       /\ offset = 0
       /\ m_transfer_byte_count' >= m_transfer_byte_total'
    \/ /\ m_phase = "STATUS" /\ m_phase' = "MESSAGE" /\ offset = 0
    \/ /\ m_phase = "MESSAGE" /\ m_phase' = "BUSFREE" /\ offset = 0

C31_BusfreePortClear ==
    hdc_started =>
        /\ m_phase = "BUSFREE" => m_status_port = 0
        /\ m_phase # "BUSFREE" => BitAnd(m_status_port, SASI_STATUS_BSY) # 0

\* The command length the class of a first byte gives.
ClassLength(first) ==
    IF first \div 32 = 0 THEN 6
    ELSE IF first \div 32 = 1 THEN 10
    ELSE IF first \div 32 = 2 THEN 8
    ELSE 6

\* C32: in the COMMAND phase every byte written is stored at an index in 0..9,
\* the command length is the one the top three bits of the first byte give
\* (6, 10, 8, otherwise 6), the byte counter never exceeds it, and the command
\* is executed (the phase leaves COMMAND) exactly when that many bytes have
\* been written.
C32_CommandLength ==
    [][ (m_phase = "COMMAND" /\ m_command_byte_count' # m_command_byte_count) =>
            /\ m_command_byte_count \in 0..9
            /\ m_command_byte_count' = m_command_byte_count + 1
            /\ m_command_byte_total' = ClassLength(m_command'[0])
            /\ m_command_byte_count' <= m_command_byte_total'
            /\ (m_phase' # "COMMAND") <=> (m_command_byte_count' = m_command_byte_total')
      ]_vars

\* A ten-byte command has been executed after its tenth byte.
C32_Witness ==
    /\ m_phase = "STATUS"
    /\ m_command[0] \div 32 = 1
    /\ m_command_byte_count = 10
    /\ m_command_byte_total = 10
    /\ m_command[9] = 1

\* C33: during a REQUEST SENSE transfer every read of the data port indexes the
\* sense buffer within 0..3, whatever the allocation length in command[3], and
\* the transfer ends after 4 bytes when command[3] is 0.
C33_SenseIndexInBuffer ==
    [][ ( /\ m_phase = "READ"
          /\ m_command[0] = SASI_CMD_REQUEST_SENSE
          /\ m_transfer_byte_count' = m_transfer_byte_count + 1 ) =>
            /\ m_transfer_byte_count \in 0..3
            /\ (m_command[3] = 0 /\ m_phase' = "STATUS") => m_transfer_byte_count' = 4
      ]_vars

\* The command codes the controller implements.
ImplementedCommands ==
    {SASI_CMD_REZERO_UNIT, SASI_CMD_REQUEST_SENSE, SASI_CMD_FORMAT_UNIT,
     SASI_CMD_FORMAT_UNIT_06, SASI_CMD_READ, SASI_CMD_WRITE, SASI_CMD_SEEK,
     SASI_CMD_SPECIFY}

\* The command received is a READ or WRITE with no image mounted, or has an
\* opcode the controller does not implement.
CommandFails ==
    \/ m_command[0] \notin ImplementedCommands
    \/ m_command[0] \in {SASI_CMD_READ, SASI_CMD_WRITE} /\ ~hd_exists

\* C34: a READ or WRITE completed with no image mounted, and a command with an
\* unknown opcode, put the controller in the STATUS phase with status byte 2;
\* the read of the data port in the STATUS phase returns the status byte; the
\* status byte is 0 in BUSFREE, and so is 0 in the STATUS phase of every
\* command that does not fail.
C34_ErrorStatus ==
    [][ /\ (m_phase = "COMMAND" /\ m_phase' # "COMMAND" /\ CommandFails') =>
                m_phase' = "STATUS" /\ m_status' = 2
        /\ m_phase = "STATUS" => m_status = (IF CommandFails THEN 2 ELSE 0)
        /\ (m_phase = "STATUS" /\ m_phase' = "MESSAGE") => hdc_result' = m_status
        /\ m_phase = "BUSFREE" => m_status = 0
        /\ m_phase' = "BUSFREE" => m_status' = 0
      ]_vars

\* The status byte of a failed command has been read.
C34_Witness ==
    /\ m_phase = "MESSAGE"
    /\ CommandFails
    /\ hdc_result = 2

\* C35: once the controller has been selected and is receiving or carrying out
\* a command, it returns to BUSFREE, provided the host keeps making the
\* data-port access that matches the phase.
C35_ReturnsToBusfree ==
    (m_phase \in {"COMMAND", "READ", "WRITE", "STATUS", "MESSAGE"}) ~> (m_phase = "BUSFREE")

(***************************************************************************)
(* Properties of the Power-JC mailbox and ROM port.                        *)
(***************************************************************************)
\* C36: a PowerPC write to the upper half of shared word offset 0x7ff asserts
\* INT6 on the I/O CPU and clears IRQ0 on the PowerPC; INT6 is cleared only by
\* an I/O CPU write to byte offset 0x1fff; IRQ0 is asserted only by an I/O CPU
\* write to byte offset 0x1ffd that leaves shared word 0xffe non-zero; in
\* every order of the two CPUs' accesses.
C36_MailboxInterrupts ==
    [][ /\ (\E data \in PpcData, mem_mask \in PpcMasks :
                mem_mask.bits_48_63 /\ ppc_common_w(2047, data, mem_mask)) =>
                    int6' = ASSERT_LINE /\ irq0' = CLEAR_LINE
        /\ (int6 = ASSERT_LINE /\ int6' = CLEAR_LINE) =>
                \E data \in TlcsData : tlcs_common_w(8191, data)
        /\ (irq0 = CLEAR_LINE /\ irq0' = ASSERT_LINE) =>
                /\ \E data \in TlcsData : tlcs_common_w(8189, data)
                /\ m_io_share_ram'[4094] # 0
      ]_vars

\* The PowerPC has rung the I/O CPU and the I/O CPU has then rung the
\* PowerPC: both interrupts are pending.
C36_Witness ==
    /\ int6 = ASSERT_LINE
    /\ irq0 = ASSERT_LINE
    /\ m_io_share_ram[4094] # 0
    /\ maincpu_reset = CLEAR_LINE

\* C37: whenever the DSP reads the ROM data port the ROM address register is
\* below 0x800000 (its upper half below 0x80), after any sequence of writes of
\* the two address halves, auto-incrementing reads and machine resets.
C37_RomAddressInRange ==
    [][ DspRomRead => m_dsp_rom_address.hi < 128 ]_vars

(***************************************************************************)
(* Properties of the MTX loaders' buffer.                                  *)
(***************************************************************************)
\* C38: the MTX snapshot and quickload loaders never index their file buffer
\* at or beyond the file length: every index they read, the last one of the
\* header and of the bytes they copy included, is below the length of the
\* file the buffer holds.
C38_IndexWithinFile ==
    (driver = "mtx" /\ max_index # NoRead) => max_index < data_length

=============================================================================
